---- MODULE Spec2Model ----
(***************************************************************************)
(* A model of go-scdb: the store facade (scdb/store.go), the buffer pool   *)
(* (scdb/internal/buffers), the inverted index (scdb/internal/             *)
(* inverted_index) and the byte layout of both files.                      *)
(*                                                                         *)
(* Files are sequences of bytes.  File offsets are the program's 0-based   *)
(* offsets: the byte at offset o of file f is f[o + 1].                    *)
(***************************************************************************)
EXTENDS Integers, Sequences, FiniteSets, TLC

(***************************************************************************)
(* Program constants                                                       *)
(***************************************************************************)
HeaderSizeInBytes == 100
IndexEntrySizeInBytes == 8
DefaultRedundantBlocks == 1
KeyValueMinSizeInBytes == 4 + 4 + 8 + 1
OffsetForKeyInKVArray == 4 + 4
InvertedIndexEntryMinSizeInBytes == 4 + 4 + 1 + 1 + 8 + 8 + 8 + 8

(***************************************************************************)
(* Bounds of the model.  The page size of the machine (os.Getpagesize())   *)
(* is scaled down to PageSlots index slots of 8 bytes.                     *)
(***************************************************************************)
PageSlots == 4
PageSize == 8 * PageSlots
MaxKeys == 4
PoolCapacity == 3
MaxIndexKeyLen == 2
MaxTime == 3
MaxSets == 2
MaxRewrites == 3
MaxCalls == 2
MaxTicks == 1

\* keys are byte strings: "a", "ag" and "c"
KeyA == <<97>>
KeyAG == <<97, 103>>
KeyC == <<99>>
Keys == {KeyA, KeyAG}
\* "b" hashes to the slot of "a" and "ag": three keys for the two probe slots
KeyB == <<98>>
ProbeKeys == Keys \cup {KeyB}
\* "aaab" contains "aab" and does not begin with it; "aab" is longer than
\* MaxIndexKeyLen
KeyAAAB == <<97, 97, 97, 98>>
KeyAAB == <<97, 97, 98>>
LongKeys == {KeyAAAB, KeyAAB}
LongTerms == {KeyAAB, <<97, 97>>}
AllKeys == ProbeKeys \cup LongKeys \cup {KeyC}
Values == {<<>>, <<7>>}
NonEmptyValues == {<<7>>}
\* a ttl is a pointer: <<>> is nil, <<n>> points to n seconds
NoTtl == <<>>
Ttls == {NoTtl, <<1>>}
SearchTerms == {KeyA, KeyAG}

\* error kinds (scdb/errors/errors.go); Panic is a Go run-time panic
NoErr == "ok"
ErrOutOfBounds == "OutOfBounds"
ErrCollisionSaturation == "CollisionSaturation"
ErrEOF == "EOF"
Panic == "panic"

(***************************************************************************)
(* Integers.  TLC's integers are 32 bits wide, so a decoded number of 2^12 *)
(* or more is kept as Huge: every such number is only ever compared with   *)
(* file sizes, offsets inside the files and clock values, all far smaller. *)
(***************************************************************************)
Huge == 2^12

Min(a, b) == IF a < b THEN a ELSE b
Max(a, b) == IF a > b THEN a ELSE b
Zeros(n) == [i \in 1..n |-> 0]

Ok(v) == [err |-> NoErr, val |-> v]
Fail(e, v) == [err |-> e, val |-> v]

\* binary.BigEndian.PutUintN: the n bytes of v, most significant first
RECURSIVE ToBigEndian(_, _)
ToBigEndian(v, n) ==
    IF n = 0 THEN <<>> ELSE Append(ToBigEndian(v \div 256, n - 1), v % 256)

\* binary.BigEndian.UintN over all the bytes of b
RECURSIVE FromBigEndian(_)
FromBigEndian(b) ==
    IF Len(b) = 0 THEN 0
    ELSE LET hi == FromBigEndian(SubSeq(b, 1, Len(b) - 1))
         IN  IF hi * 256 + b[Len(b)] >= Huge THEN Huge ELSE hi * 256 + b[Len(b)]

Uint16ToByteArray(v) == ToBigEndian(v, 2)
Uint32ToByteArray(v) == ToBigEndian(v, 4)
Uint64ToByteArray(v) == ToBigEndian(v, 8)

Uint16FromByteArray(v) ==
    IF Len(v) < 2 THEN Fail(ErrOutOfBounds, 0) ELSE Ok(FromBigEndian(SubSeq(v, 1, 2)))
Uint32FromByteArray(v) ==
    IF Len(v) < 4 THEN Fail(ErrOutOfBounds, 0) ELSE Ok(FromBigEndian(SubSeq(v, 1, 4)))
Uint64FromByteArray(v) ==
    IF Len(v) < 8 THEN Fail(ErrOutOfBounds, 0) ELSE Ok(FromBigEndian(SubSeq(v, 1, 8)))

BoolToByteArray(v) == IF v THEN <<1>> ELSE <<0>>
BoolFromByteArray(v) ==
    IF Len(v) < 1 THEN Fail(ErrOutOfBounds, FALSE) ELSE Ok(v[1] = 1)

\* data[start:end], refused when it leaves maxLength
SafeSlice(data, start, end, maxLength) ==
    IF start >= maxLength \/ end > maxLength
    THEN Fail(ErrOutOfBounds, <<>>)
    ELSE Ok(SubSeq(data, start + 1, end))

ValidateBounds(actualLower, actualUpper, expectedLower, expectedUpper) ==
    IF actualLower < expectedLower \/ actualUpper > expectedUpper
    THEN ErrOutOfBounds
    ELSE NoErr

\* bytes.Contains(b, sub): sub occurs somewhere in b
BytesContains(b, sub) ==
    \E i \in 0..(Len(b) - Len(sub)) : SubSeq(b, i + 1, i + Len(sub)) = sub

(***************************************************************************)
(* Files (os.File)                                                         *)
(***************************************************************************)
\* File.ReadAt(buf, off) with len(buf) = n: n is the number of bytes read, data
\* the whole buffer (what was not read stays zero), eof whether fewer than n
\* bytes were read (the io.EOF error)
ReadAt(f, off, n) ==
    LET got == Max(0, Min(n, Len(f) - off))
    IN  [n |-> got,
         data |-> SubSeq(f, off + 1, off + got) \o Zeros(n - got),
         eof |-> got < n]

\* File.WriteAt(data, off): the file grows (zero filled) when written past its end
WriteAt(f, off, data) ==
    IF Len(data) = 0 THEN f
    ELSE LET grown == IF Len(f) < off THEN f \o Zeros(off - Len(f)) ELSE f
         IN  SubSeq(grown, 1, off) \o data \o SubSeq(grown, off + Len(data) + 1, Len(grown))

(***************************************************************************)
(* The hasher.  XXH64 cannot be computed in 32-bit arithmetic; the table   *)
(* holds xxhash.Sum64(key) mod 2520 for the byte strings the model hashes  *)
(* ("a", "ag", "b", "c", "a\x01", a key the program comes to write, and    *)
(* "aa", "aaa", "aab", "aaab"),                                            *)
(* and 2520 is a multiple of every block length in use, so that            *)
(* (Sum64(key) mod 2520) mod blockLength = Sum64(key) mod blockLength.     *)
(***************************************************************************)
Sum64Mod2520(key) ==
    CASE key = <<97>> -> 1595
      [] key = <<97, 103>> -> 1455
      [] key = <<98>> -> 2475
      [] key = <<99>> -> 1709
      [] key = <<97, 1>> -> 1294
      [] key = <<97, 97>> -> 1209
      [] key = <<97, 97, 97>> -> 1675
      [] key = <<97, 97, 98>> -> 316
      [] key = <<97, 97, 97, 98>> -> 2412

GetHash(key, blockLength) == Sum64Mod2520(key) % blockLength

(***************************************************************************)
(* Headers (scdb/internal/entries/headers)                                 *)
(***************************************************************************)
\* "Scdb versn 0.001" and "ScdbIndex v0.001"
DbFileTitle == <<83, 99, 100, 98, 32, 118, 101, 114, 115, 110, 32, 48, 46, 48, 48, 49>>
IndexFileTitle == <<83, 99, 100, 98, 73, 110, 100, 101, 120, 32, 118, 48, 46, 48, 48, 49>>

\* the derived fields of a header, from BlockSize, MaxKeys and RedundantBlocks
updateDerivedProps(h) ==
    LET items == h.BlockSize \div IndexEntrySizeInBytes
        blocks == ((h.MaxKeys + items - 1) \div items) + h.RedundantBlocks
        net == items * IndexEntrySizeInBytes
    IN  [h EXCEPT !.ItemsPerIndexBlock = items,
                  !.NumberOfIndexBlocks = blocks,
                  !.NetBlockSize = net,
                  !.ValuesStartPoint = HeaderSizeInBytes + (net * blocks)]

\* the header of the data file; ValuesStartPoint is its KeyValuesStartPoint
NewDbFileHeader(maxKeys, redundantBlocks, blockSize) ==
    updateDerivedProps([Title |-> DbFileTitle, BlockSize |-> blockSize,
                        MaxKeys |-> maxKeys, RedundantBlocks |-> redundantBlocks,
                        MaxIndexKeyLen |-> 0,
                        ItemsPerIndexBlock |-> 0, NumberOfIndexBlocks |-> 0,
                        NetBlockSize |-> 0, ValuesStartPoint |-> 0])

NewInvertedIndexHeader(maxKeys, redundantBlocks, blockSize, maxIndexKeyLen) ==
    updateDerivedProps([Title |-> IndexFileTitle, BlockSize |-> blockSize,
                        MaxKeys |-> maxKeys, RedundantBlocks |-> redundantBlocks,
                        MaxIndexKeyLen |-> maxIndexKeyLen,
                        ItemsPerIndexBlock |-> 0, NumberOfIndexBlocks |-> 0,
                        NetBlockSize |-> 0, ValuesStartPoint |-> 0])

DbFileHeaderAsBytes(h) ==
    h.Title \o Uint32ToByteArray(h.BlockSize) \o Uint64ToByteArray(h.MaxKeys)
        \o Uint16ToByteArray(h.RedundantBlocks) \o Zeros(70)

InvertedIndexHeaderAsBytes(h) ==
    h.Title \o Uint32ToByteArray(h.BlockSize) \o Uint64ToByteArray(h.MaxKeys)
        \o Uint16ToByteArray(h.RedundantBlocks) \o Uint32ToByteArray(h.MaxIndexKeyLen)
        \o Zeros(66)

\* readHeaderFile and ExtractDbFileHeaderFromByteArray
ExtractDbFileHeaderFromFile(file) ==
    LET r == ReadAt(file, 0, HeaderSizeInBytes)
    IN  IF r.n < HeaderSizeInBytes
        THEN Fail(ErrOutOfBounds, NewDbFileHeader(0, 0, IndexEntrySizeInBytes))
        ELSE Ok(updateDerivedProps(
                 [Title |-> SubSeq(r.data, 1, 16),
                  BlockSize |-> FromBigEndian(SubSeq(r.data, 17, 20)),
                  MaxKeys |-> FromBigEndian(SubSeq(r.data, 21, 28)),
                  RedundantBlocks |-> FromBigEndian(SubSeq(r.data, 29, 30)),
                  MaxIndexKeyLen |-> 0,
                  ItemsPerIndexBlock |-> 0, NumberOfIndexBlocks |-> 0,
                  NetBlockSize |-> 0, ValuesStartPoint |-> 0]))

\* the offset of the key's slot in the first index block
GetIndexOffset(h, key) ==
    HeaderSizeInBytes + (GetHash(key, h.ItemsPerIndexBlock) * IndexEntrySizeInBytes)

\* the offset of the slot in the n-th index block
GetIndexOffsetInNthBlock(h, initialOffset, n) ==
    IF n >= h.NumberOfIndexBlocks
    THEN Fail(ErrOutOfBounds, 0)
    ELSE Ok(initialOffset + (h.NetBlockSize * n))

\* InitializeFile: truncate to nothing, grow to header + index blocks, write the
\* header; the result is the new file, whose length is the returned size
InitializeFile(headerBytes, h) ==
    WriteAt(Zeros(Len(headerBytes) + h.NumberOfIndexBlocks * h.NetBlockSize), 0, headerBytes)

(***************************************************************************)
(* Entries (scdb/internal/entries/values)                                  *)
(***************************************************************************)
NewKeyValueEntry(key, value, expiry) ==
    [Size |-> Len(key) + KeyValueMinSizeInBytes + Len(value),
     KeySize |-> Len(key), Key |-> key, Expiry |-> expiry,
     IsDeleted |-> FALSE, Value |-> value]

NoKeyValueEntry == NewKeyValueEntry(<<>>, <<>>, 0)

KeyValueEntryAsBytes(kv) ==
    Uint32ToByteArray(kv.Size) \o Uint32ToByteArray(kv.KeySize) \o kv.Key
        \o BoolToByteArray(kv.IsDeleted) \o Uint64ToByteArray(kv.Expiry) \o kv.Value

\* a uint32 difference: a negative one wraps around to 2^32 - d, kept as Huge
SubUint32(a, b) == IF a - b < 0 THEN Huge ELSE a - b

ExtractKeyValueEntryFromByteArray(data, offset) ==
    LET dataLength == Len(data)
        sizeSlice == SafeSlice(data, offset, offset + 4, dataLength)
        size == FromBigEndian(sizeSlice.val)
        keySizeSlice == SafeSlice(data, offset + 4, offset + 8, dataLength)
        kSize == FromBigEndian(keySizeSlice.val)
        key == SafeSlice(data, offset + 8, offset + 8 + kSize, dataLength)
        isDeletedSlice == SafeSlice(data, offset + 8 + kSize, offset + 9 + kSize, dataLength)
        expirySlice == SafeSlice(data, offset + 9 + kSize, offset + kSize + 17, dataLength)
        valueSize == SubUint32(SubUint32(size, kSize), KeyValueMinSizeInBytes)
        value == SafeSlice(data, offset + kSize + 17, offset + kSize + 17 + valueSize, dataLength)
    IN  IF \/ sizeSlice.err # NoErr
           \/ keySizeSlice.err # NoErr
           \/ key.err # NoErr
           \/ isDeletedSlice.err # NoErr
           \/ expirySlice.err # NoErr
           \/ value.err # NoErr
        THEN Fail(ErrOutOfBounds, NoKeyValueEntry)
        ELSE Ok([Size |-> size, KeySize |-> kSize, Key |-> key.val,
                 Expiry |-> FromBigEndian(expirySlice.val),
                 IsDeleted |-> (isDeletedSlice.val[1] = 1), Value |-> value.val])

NewInvertedIndexEntry(indexKey, key, expiry, isRoot, kvAddr, nextOffset, previousOffset) ==
    [Size |-> Len(key) + Len(indexKey) + InvertedIndexEntryMinSizeInBytes,
     IndexKeySize |-> Len(indexKey), IndexKey |-> indexKey, Key |-> key,
     IsDeleted |-> FALSE, IsRoot |-> isRoot, Expiry |-> expiry,
     NextOffset |-> nextOffset, PreviousOffset |-> previousOffset, KvAddress |-> kvAddr]

NoInvertedIndexEntry == NewInvertedIndexEntry(<<>>, <<>>, 0, FALSE, 0, 0, 0)

InvertedIndexEntryAsBytes(e) ==
    Uint32ToByteArray(e.Size) \o Uint32ToByteArray(e.IndexKeySize) \o e.IndexKey \o e.Key
        \o BoolToByteArray(e.IsDeleted) \o BoolToByteArray(e.IsRoot)
        \o Uint64ToByteArray(e.Expiry) \o Uint64ToByteArray(e.NextOffset)
        \o Uint64ToByteArray(e.PreviousOffset) \o Uint64ToByteArray(e.KvAddress)

ExtractInvertedIndexEntryFromByteArray(data, offset) ==
    LET dataLength == Len(data)
        sizeSlice == SafeSlice(data, offset, offset + 4, dataLength)
        size == FromBigEndian(sizeSlice.val)
        indexKeySizeSlice == SafeSlice(data, offset + 4, offset + 8, dataLength)
        iks == FromBigEndian(indexKeySizeSlice.val)
        indexKey == SafeSlice(data, offset + 8, offset + 8 + iks, dataLength)
        ks == SubUint32(SubUint32(size, iks), InvertedIndexEntryMinSizeInBytes)
        key == SafeSlice(data, offset + 8 + iks, offset + 8 + iks + ks, dataLength)
        isDeletedSlice == SafeSlice(data, offset + 8 + iks + ks, offset + 9 + iks + ks, dataLength)
        isRootSlice == SafeSlice(data, offset + 9 + iks + ks, offset + 10 + iks + ks, dataLength)
        expirySlice == SafeSlice(data, offset + 10 + iks + ks, offset + iks + ks + 18, dataLength)
        nextOffsetSlice == SafeSlice(data, offset + 18 + iks + ks, offset + iks + ks + 26, dataLength)
        prevOffsetSlice == SafeSlice(data, offset + 26 + iks + ks, offset + iks + ks + 34, dataLength)
        kvAddrSlice == SafeSlice(data, offset + 34 + iks + ks, offset + iks + ks + 42, dataLength)
    IN  IF \/ sizeSlice.err # NoErr
           \/ indexKeySizeSlice.err # NoErr
           \/ indexKey.err # NoErr
           \/ key.err # NoErr
           \/ isDeletedSlice.err # NoErr
           \/ isRootSlice.err # NoErr
           \/ expirySlice.err # NoErr
           \/ nextOffsetSlice.err # NoErr
           \/ prevOffsetSlice.err # NoErr
           \/ kvAddrSlice.err # NoErr
        THEN Fail(ErrOutOfBounds, NoInvertedIndexEntry)
        ELSE Ok([Size |-> size, IndexKeySize |-> iks, IndexKey |-> indexKey.val,
                 Key |-> key.val,
                 IsDeleted |-> (isDeletedSlice.val[1] = 1),
                 IsRoot |-> (isRootSlice.val[1] = 1),
                 Expiry |-> FromBigEndian(expirySlice.val),
                 NextOffset |-> FromBigEndian(nextOffsetSlice.val),
                 PreviousOffset |-> FromBigEndian(prevOffsetSlice.val),
                 KvAddress |-> FromBigEndian(kvAddrSlice.val)])

\* IsExpired at clock value t (time.Now().Unix())
IsExpired(expiry, t) == IF expiry = 0 THEN FALSE ELSE expiry < t

(***************************************************************************)
(* Buffer (scdb/internal/buffers/buffer.go)                                *)
(***************************************************************************)
NewBuffer(leftOffset, data, capacity) ==
    LET upperBound == Min(Len(data), capacity)
    IN  [capacity |-> capacity, Data |-> SubSeq(data, 1, upperBound),
         LeftOffset |-> leftOffset, RightOffset |-> leftOffset + upperBound]

BufferCanAppend(b, addr) ==
    (b.RightOffset - b.LeftOffset) < b.capacity /\ addr = b.RightOffset

BufferContains(b, addr) == b.LeftOffset <= addr /\ addr < b.RightOffset

\* Buffer.Append: the buffer after the append (the address is its old RightOffset)
BufferAppend(b, data) ==
    [b EXCEPT !.Data = b.Data \o data, !.RightOffset = b.RightOffset + Len(data)]

\* Buffer.Replace: val is the buffer after the replacement
BufferReplace(b, addr, data) ==
    LET err == ValidateBounds(addr, addr + Len(data), b.LeftOffset, b.RightOffset)
        start == addr - b.LeftOffset
    IN  IF err # NoErr THEN Fail(err, b)
        ELSE Ok([b EXCEPT !.Data = WriteAt(b.Data, start, data)])

\* Buffer.GetValue: found says that the key at addr is the given key, IsStale that
\* the entry is deleted or expired (a stale entry is nil to the callers, as in
\* BufferPool.GetValue and Store.Get)
BufferGetValue(b, addr, key, t) ==
    LET offset == addr - b.LeftOffset
        entry == ExtractKeyValueEntryFromByteArray(b.Data, offset)
    IN  IF entry.err # NoErr
        THEN [err |-> entry.err, found |-> FALSE, IsStale |-> FALSE, val |-> NoKeyValueEntry]
        ELSE [err |-> NoErr, found |-> entry.val.Key = key,
              IsStale |-> entry.val.IsDeleted \/ IsExpired(entry.val.Expiry, t),
              val |-> entry.val]

BufferReadAt(b, addr, size) ==
    LET err == ValidateBounds(addr, addr + size, b.LeftOffset, b.RightOffset)
        lwr == addr - b.LeftOffset
    IN  IF err # NoErr THEN Fail(err, <<>>) ELSE Ok(SubSeq(b.Data, lwr + 1, lwr + size))

BufferAddrBelongsToKey(b, addr, key) ==
    LET keySize == Len(key)
        err == ValidateBounds(addr, addr + keySize + OffsetForKeyInKVArray,
                              b.LeftOffset, b.RightOffset)
        lw == addr - b.LeftOffset + OffsetForKeyInKVArray
    IN  IF err # NoErr THEN Fail(err, FALSE)
        ELSE Ok(SubSeq(b.Data, lw + 1, lw + keySize) = key)

\* Buffer.TryDeleteKvEntry: val says whether the key matched, buf is the buffer
\* afterwards; writing the is_deleted byte past the end of Data panics
BufferTryDeleteKvEntry(b, addr, key) ==
    LET keySize == Len(key)
        err == ValidateBounds(addr, addr + keySize + OffsetForKeyInKVArray,
                              b.LeftOffset, b.RightOffset)
        keyOffset == addr - b.LeftOffset + OffsetForKeyInKVArray
        isDeletedIdx == keyOffset + keySize
    IN  IF err # NoErr THEN [err |-> err, val |-> FALSE, buf |-> b]
        ELSE IF SubSeq(b.Data, keyOffset + 1, keyOffset + keySize) # key
        THEN [err |-> NoErr, val |-> FALSE, buf |-> b]
        ELSE IF isDeletedIdx >= Len(b.Data)
        THEN [err |-> Panic, val |-> FALSE, buf |-> b]
        ELSE [err |-> NoErr, val |-> TRUE,
              buf |-> [b EXCEPT !.Data = WriteAt(b.Data, isDeletedIdx, <<1>>)]]

(***************************************************************************)
(* BufferPool (scdb/internal/buffers/pool.go).  A pool is a record with    *)
(* the fields of the BufferPool struct; File is the content of the data    *)
(* file.  An operation maps a pool to a record with the pool afterwards    *)
(* (bp), the error (err) and the returned value (val).                     *)
(***************************************************************************)
\* a uint64 difference: a negative one wraps around to 2^64 - d, kept as Huge
SubUint64(a, b) == IF a - b < 0 THEN Huge ELSE a - b

getIndexCapacity(numOfIndexBlocks, totalCapacity) ==
    Max(1, Min((2 * totalCapacity) \div 3, numOfIndexBlocks))

\* NewBufferPool for a file that does not exist yet
NewBufferPool(capacity, maxKeys, redundantBlocks, bufferSize) ==
    LET header == NewDbFileHeader(maxKeys, redundantBlocks, bufferSize)
        file == InitializeFile(DbFileHeaderAsBytes(header), header)
        indexCap == getIndexCapacity(header.NumberOfIndexBlocks, capacity)
    IN  [kvCapacity |-> SubUint64(capacity, indexCap),
         indexCapacity |-> indexCap,
         bufferSize |-> bufferSize,
         keyValuesStartPoint |-> header.ValuesStartPoint,
         maxKeys |-> header.MaxKeys,
         redundantBlocks |-> header.RedundantBlocks,
         kvBuffers |-> <<>>,
         indexBuffers |-> <<>>,
         File |-> file,
         FileSize |-> Len(file)]

\* indexBuffers is a map from block left offset to Buffer: a function
MapPut(m, k, v) == [x \in (DOMAIN m) \cup {k} |-> IF x = k THEN v ELSE m[x]]
MapDelete(m, k) == [x \in (DOMAIN m) \ {k} |-> m[x]]
EmptyMap == <<>>

\* the position of the newest kv buffer for which P holds, 0 when there is none
NewestBuffer(buffers, P(_)) ==
    LET hits == {i \in 1..Len(buffers) : P(buffers[i])}
    IN  IF hits = {} THEN 0 ELSE CHOOSE i \in hits : \A j \in hits : j <= i

getBlockLeftOffset(p, addr, minOffset) ==
    (((addr - minOffset) \div p.bufferSize) * p.bufferSize) + minOffset

\* Append into the kv buffer at position i
AppendToBuffer(p, data, i) ==
    [bp |-> [p EXCEPT !.kvBuffers[i] = BufferAppend(p.kvBuffers[i], data),
                      !.FileSize = p.kvBuffers[i].RightOffset + Len(data),
                      !.File = WriteAt(p.File, p.kvBuffers[i].RightOffset, data)],
     err |-> NoErr, val |-> p.kvBuffers[i].RightOffset]

\* an Append that looks at the last kv buffer only
AppendAtLastOnly(p, data, i) ==
    IF i # 0 /\ i = Len(p.kvBuffers) THEN AppendToBuffer(p, data, i)
    ELSE [bp |-> [p EXCEPT !.File = WriteAt(p.File, p.FileSize, data),
                           !.FileSize = p.FileSize + Len(data)],
          err |-> NoErr, val |-> p.FileSize]

\* Append, with the position i of the newest kv buffer that can take the data
AppendAt(p, data, i) ==
    IF i # 0 THEN AppendToBuffer(p, data, i)
    ELSE [bp |-> [p EXCEPT !.File = WriteAt(p.File, p.FileSize, data),
                           !.FileSize = p.FileSize + Len(data)],
          err |-> NoErr, val |-> p.FileSize]

PoolAppend(p, data) ==
    AppendAt(p, data, NewestBuffer(p.kvBuffers, LAMBDA b : BufferCanAppend(b, p.FileSize)))

\* UpdateIndex once the bounds are valid and the block is cached: rep is what
\* Buffer.Replace returned
UpdateCachedIndex(p, addr, data, blockLeftOffset, rep) ==
    IF rep.err # NoErr THEN [bp |-> p, err |-> rep.err]
    ELSE [bp |-> [p EXCEPT !.indexBuffers = MapPut(p.indexBuffers, blockLeftOffset, rep.val),
                           !.File = WriteAt(p.File, addr, data)],
          err |-> NoErr]

\* UpdateIndex once the bounds are valid
UpdateIndexInBlock(p, addr, data, blockLeftOffset) ==
    IF blockLeftOffset \in DOMAIN p.indexBuffers
    THEN UpdateCachedIndex(p, addr, data, blockLeftOffset,
                           BufferReplace(p.indexBuffers[blockLeftOffset], addr, data))
    ELSE [bp |-> [p EXCEPT !.File = WriteAt(p.File, addr, data)], err |-> NoErr]

UpdateIndex(p, addr, data) ==
    IF ValidateBounds(addr, addr + Len(data), HeaderSizeInBytes, p.keyValuesStartPoint) # NoErr
    THEN [bp |-> p, err |-> ErrOutOfBounds]
    ELSE UpdateIndexInBlock(p, addr, data, getBlockLeftOffset(p, addr, HeaderSizeInBytes))

\* the header and the empty index blocks of a pool's file
InitialDbFile(header) == InitializeFile(DbFileHeaderAsBytes(header), header)

\* ClearFile, with the file it initializes
ClearFileTo(p, file) ==
    [bp |-> [p EXCEPT !.File = file, !.FileSize = Len(file),
                      !.indexBuffers = EmptyMap, !.kvBuffers = <<>>],
     err |-> NoErr]

\* a ClearFile that initializes the file and keeps the buffers
ClearFileKeepingBuffers(p) ==
    [bp |-> [p EXCEPT !.File = InitialDbFile(NewDbFileHeader(p.maxKeys, p.redundantBlocks,
                                                             p.bufferSize)),
                      !.FileSize = p.keyValuesStartPoint],
     err |-> NoErr]

ClearFile(p) ==
    ClearFileTo(p, InitialDbFile(NewDbFileHeader(p.maxKeys, p.redundantBlocks, p.bufferSize)))

\* the cache miss of GetValue and AddrBelongsToKey: the oldest kv buffer is popped
\* when the pool is at capacity (kvBuffers[1:] of an empty slice panics), and the
\* bytes read at kvAddress, r, become the newest buffer.  read is the whole buffer
\* that was read into, zero where the file ended
LoadedKvBuffer(p, kvAddress, kept, r) ==
    [bp |-> [p EXCEPT !.kvBuffers =
                Append(kept, NewBuffer(kvAddress, SubSeq(r.data, 1, r.n), p.bufferSize))],
     err |-> NoErr, read |-> r.data]

LoadKvBuffer(p, kvAddress) ==
    IF Len(p.kvBuffers) >= p.kvCapacity /\ Len(p.kvBuffers) = 0
    THEN [bp |-> p, err |-> Panic, read |-> <<>>]
    ELSE LoadedKvBuffer(p, kvAddress,
                        IF Len(p.kvBuffers) >= p.kvCapacity THEN Tail(p.kvBuffers)
                        ELSE p.kvBuffers,
                        ReadAt(p.File, kvAddress, p.bufferSize))

\* the result of GetValue: found is FALSE for the nil entry
ValueResult(p, err, found, entry) ==
    [bp |-> p, err |-> err, found |-> found, val |-> IF found THEN entry ELSE NoKeyValueEntry]

\* GetValue from the kv buffer that contains the address: hit is what
\* Buffer.GetValue returned
GetValueFromBuffer(p, hit) ==
    ValueResult(p, hit.err, hit.err = NoErr /\ hit.found /\ ~hit.IsStale, hit.val)

\* GetValue from the file: entry is the entry parsed from the bytes read
GetValueFromEntry(p, entry, key, t) ==
    IF entry.err # NoErr THEN ValueResult(p, entry.err, FALSE, NoKeyValueEntry)
    ELSE ValueResult(p, NoErr,
                     entry.val.Key = key /\ ~IsExpired(entry.val.Expiry, t)
                         /\ ~entry.val.IsDeleted,
                     entry.val)

\* GetValue from the file: miss is the buffer just loaded
GetValueFromFile(miss, key, t) ==
    IF miss.err # NoErr THEN ValueResult(miss.bp, miss.err, FALSE, NoKeyValueEntry)
    ELSE GetValueFromEntry(miss.bp, ExtractKeyValueEntryFromByteArray(miss.read, 0), key, t)

\* GetValue, with the position i of the newest kv buffer containing the address
GetValueAt(p, kvAddress, key, t, i) ==
    IF i # 0
    THEN GetValueFromBuffer(p, BufferGetValue(p.kvBuffers[i], kvAddress, key, t))
    ELSE GetValueFromFile(LoadKvBuffer(p, kvAddress), key, t)

\* BufferPool.GetValue at clock value t
GetValue(p, kvAddress, key, t) ==
    IF kvAddress = 0 THEN ValueResult(p, NoErr, FALSE, NoKeyValueEntry)
    ELSE GetValueAt(p, kvAddress, key, t,
                    NewestBuffer(p.kvBuffers, LAMBDA b : BufferContains(b, kvAddress)))

\* extractKeyAsByteArrayFromFile: a short read is an error (io.EOF); r is the read
KeyAsByteArray(r) == IF r.eof THEN Fail(ErrEOF, <<>>) ELSE Ok(r.data)

extractKeyAsByteArrayFromFile(file, kvAddr, keySize) ==
    KeyAsByteArray(ReadAt(file, kvAddr + OffsetForKeyInKVArray, keySize))

\* TryDeleteKvEntry marks the entry at kvAddress as deleted in the file
MarkedDeleted(p, kvAddress, key) ==
    [p EXCEPT !.File = WriteAt(p.File, kvAddress + OffsetForKeyInKVArray + Len(key), <<1>>)]

\* the loop of TryDeleteKvEntry over the kv buffers i, i-1, ..., 1; r is what
\* Buffer.TryDeleteKvEntry returned for buffer i
RECURSIVE TryDeleteInBuffers(_, _, _, _)
TryDeletedInBuffer(p, i, kvAddress, key, r) ==
    IF r.err # NoErr THEN [bp |-> p, err |-> r.err, val |-> FALSE]
    ELSE IF r.val
    THEN [bp |-> MarkedDeleted([p EXCEPT !.kvBuffers[i] = r.buf], kvAddress, key),
          err |-> NoErr, val |-> TRUE]
    ELSE TryDeleteInBuffers(p, i - 1, kvAddress, key)

TryDeleteInBuffers(p, i, kvAddress, key) ==
    IF i = 0 THEN [bp |-> p, err |-> NoErr, val |-> FALSE]
    ELSE IF ~BufferContains(p.kvBuffers[i], kvAddress)
    THEN TryDeleteInBuffers(p, i - 1, kvAddress, key)
    ELSE TryDeletedInBuffer(p, i, kvAddress, key,
                            BufferTryDeleteKvEntry(p.kvBuffers[i], kvAddress, key))

\* TryDeleteKvEntry when no buffer had the key: keyInData is the key in the file
TryDeleteInFile(p, kvAddress, key, keyInData) ==
    IF keyInData.err # NoErr THEN [bp |-> p, err |-> keyInData.err, val |-> FALSE]
    ELSE IF keyInData.val = key
    THEN [bp |-> MarkedDeleted(p, kvAddress, key), err |-> NoErr, val |-> TRUE]
    ELSE [bp |-> p, err |-> NoErr, val |-> FALSE]

\* TryDeleteKvEntry after the loop over the buffers, which returned inBuffers
TryDeletedKvEntry(p, kvAddress, key, inBuffers) ==
    IF inBuffers.err # NoErr \/ inBuffers.val THEN inBuffers
    ELSE TryDeleteInFile(p, kvAddress, key,
                         extractKeyAsByteArrayFromFile(p.File, kvAddress, Len(key)))

TryDeleteKvEntry(p, kvAddress, key) ==
    TryDeletedKvEntry(p, kvAddress, key,
                      TryDeleteInBuffers(p, Len(p.kvBuffers), kvAddress, key))

\* AddrBelongsToKey from the file: miss is the buffer just loaded
AddrBelongsToKeyInFile(p, miss, key) ==
    IF miss.err # NoErr THEN [bp |-> miss.bp, err |-> miss.err, val |-> FALSE]
    ELSE IF OffsetForKeyInKVArray + Len(key) > p.bufferSize
    THEN [bp |-> miss.bp, err |-> Panic, val |-> FALSE]
    ELSE [bp |-> miss.bp, err |-> NoErr,
          val |-> BytesContains(SubSeq(miss.read, OffsetForKeyInKVArray + 1,
                                       OffsetForKeyInKVArray + Len(key)), key)]

\* AddrBelongsToKey from the kv buffer that contains the address
AddrBelongsToKeyInBuffer(p, hit) == [bp |-> p, err |-> hit.err, val |-> hit.val]

\* AddrBelongsToKey, with the position i of the newest kv buffer containing it
AddrBelongsToKeyAt(p, kvAddress, key, i) ==
    IF i # 0
    THEN AddrBelongsToKeyInBuffer(p, BufferAddrBelongsToKey(p.kvBuffers[i], kvAddress, key))
    ELSE AddrBelongsToKeyInFile(p, LoadKvBuffer(p, kvAddress), key)

AddrBelongsToKey(p, kvAddress, key) ==
    IF kvAddress >= p.FileSize THEN [bp |-> p, err |-> NoErr, val |-> FALSE]
    ELSE AddrBelongsToKeyAt(p, kvAddress, key,
                            NewestBuffer(p.kvBuffers, LAMBDA b : BufferContains(b, kvAddress)))

\* an eviction that drops the index buffer with the smallest left offset
EvictedLowestIndexBuffer(p) ==
    IF Cardinality(DOMAIN p.indexBuffers) >= p.indexCapacity /\ DOMAIN p.indexBuffers # {}
    THEN MapDelete(p.indexBuffers,
                   CHOOSE o \in DOMAIN p.indexBuffers : \A o2 \in DOMAIN p.indexBuffers : o <= o2)
    ELSE p.indexBuffers

\* the index buffers after making room for one more: at capacity, the buffer
\* with the biggest left offset goes
EvictedIndexBuffers(p) ==
    IF Cardinality(DOMAIN p.indexBuffers) >= p.indexCapacity /\ DOMAIN p.indexBuffers # {}
    THEN MapDelete(p.indexBuffers,
                   CHOOSE o \in DOMAIN p.indexBuffers : \A o2 \in DOMAIN p.indexBuffers : o2 <= o)
    ELSE p.indexBuffers

\* ReadIndex from the kv file: data is the block read.  The block is cached
\* first; data[start : start+8] then panics when the 8 bytes run past the
\* end of the block
ReadIndexFromFile(p, addr, blockLeftOffset, data) ==
    [bp |-> [p EXCEPT !.indexBuffers =
                MapPut(EvictedIndexBuffers(p), blockLeftOffset,
                       NewBuffer(blockLeftOffset, data, p.bufferSize))],
     err |-> IF addr - blockLeftOffset + IndexEntrySizeInBytes > p.bufferSize
             THEN Panic ELSE NoErr,
     val |-> IF addr - blockLeftOffset + IndexEntrySizeInBytes > p.bufferSize
             THEN <<>>
             ELSE SubSeq(data, addr - blockLeftOffset + 1,
                         addr - blockLeftOffset + IndexEntrySizeInBytes)]

\* ReadIndex from the index buffer of the block
ReadIndexFromBuffer(p, hit) == [bp |-> p, err |-> hit.err, val |-> hit.val]

\* ReadIndex once the bounds are valid
ReadIndexInBlock(p, addr, blockLeftOffset) ==
    IF blockLeftOffset \in DOMAIN p.indexBuffers
    THEN ReadIndexFromBuffer(p, BufferReadAt(p.indexBuffers[blockLeftOffset], addr,
                                             IndexEntrySizeInBytes))
    ELSE ReadIndexFromFile(p, addr, blockLeftOffset,
                           ReadAt(p.File, blockLeftOffset, p.bufferSize).data)

ReadIndex(p, addr) ==
    IF ValidateBounds(addr, addr + IndexEntrySizeInBytes, HeaderSizeInBytes,
                      p.keyValuesStartPoint) # NoErr
    THEN [bp |-> p, err |-> ErrOutOfBounds, val |-> <<>>]
    ELSE ReadIndexInBlock(p, addr, getBlockLeftOffset(p, addr, HeaderSizeInBytes))

\* readKvSize and readKvBytes, then the entry: one address of GetManyKeyValues
ReadKvForSearch(p, addr) ==
    ExtractKeyValueEntryFromByteArray(
        ReadAt(p.File, addr, FromBigEndian(ReadAt(p.File, addr, 4).data)).data, 0)

\* GetManyKeyValues at clock value t: val is the list of pairs; entry is the
\* entry at the i-th address
RECURSIVE GetManyKeyValuesFrom(_, _, _, _, _)
GotKeyValue(p, addrs, i, results, t, entry) ==
    IF entry.err # NoErr THEN Fail(entry.err, <<>>)
    ELSE IF ~entry.val.IsDeleted /\ ~IsExpired(entry.val.Expiry, t)
    THEN GetManyKeyValuesFrom(p, addrs, i + 1,
             Append(results, [K |-> entry.val.Key, V |-> entry.val.Value]), t)
    ELSE GetManyKeyValuesFrom(p, addrs, i + 1, results, t)

GetManyKeyValuesFrom(p, addrs, i, results, t) ==
    IF i > Len(addrs) THEN Ok(results)
    ELSE GotKeyValue(p, addrs, i, results, t, ReadKvForSearch(p, addrs[i]))

GetManyKeyValues(p, addrs, t) == GetManyKeyValuesFrom(p, addrs, 1, <<>>, t)

(***************************************************************************)
(* Inverted index (scdb/internal/inverted_index/inverted_index.go).  An    *)
(* index is a record with the fields of the InvertedIndex struct; File is  *)
(* the content of the index file.                                          *)
(***************************************************************************)
Diverges == "diverges"

\* NewInvertedIndex for a file that does not exist yet
NewInvertedIndex(maxIndexKeyLen, dbMaxKeys, dbRedundantBlocks) ==
    LET header == NewInvertedIndexHeader(dbMaxKeys, dbRedundantBlocks, PageSize, maxIndexKeyLen)
        file == InitializeFile(InvertedIndexHeaderAsBytes(header), header)
    IN  [File |-> file,
         MaxIndexKeyLen |-> header.MaxIndexKeyLen,
         ValuesStartPoint |-> header.ValuesStartPoint,
         FileSize |-> Len(file),
         header |-> header]

\* a walk over a list that visits more nodes than the file can hold never ends
WalkFuel(file) == (Len(file) \div InvertedIndexEntryMinSizeInBytes) + 1

readEntryAddress(idx, addr) ==
    LET err == ValidateBounds(addr, addr + IndexEntrySizeInBytes, HeaderSizeInBytes,
                              idx.ValuesStartPoint)
        r == ReadAt(idx.File, addr, IndexEntrySizeInBytes)
    IN  IF err # NoErr THEN Fail(err, <<>>) ELSE Ok(SubSeq(r.data, 1, r.n))

readEntryBytes(file, addr) ==
    LET sizeBuf == ReadAt(file, addr, 4)
        size == Uint32FromByteArray(SubSeq(sizeBuf.data, 1, sizeBuf.n))
        buf == ReadAt(file, addr, size.val)
    IN  IF size.err # NoErr THEN Fail(size.err, <<>>) ELSE Ok(SubSeq(buf.data, 1, buf.n))

\* writeEntryToFile: the file afterwards (the bytes written are those of the entry)
writeEntryToFile(file, addr, entry) == WriteAt(file, addr, InvertedIndexEntryAsBytes(entry))

\* the entry at addr gets a new next offset, in place
UpdateNextOffsetOnFile(file, entry, addr, newOffset) ==
    WriteAt(file, addr + 18 + entry.IndexKeySize + Len(entry.Key), Uint64ToByteArray(newOffset))

\* the entry at addr gets a new previous offset, in place
UpdatePreviousOffsetOnFile(file, entry, addr, newOffset) ==
    WriteAt(file, addr + 26 + entry.IndexKeySize + Len(entry.Key), Uint64ToByteArray(newOffset))

\* appendNewRootEntry, with the bytes of the new entry
AppendedRootEntry(idx, indexOffset, entryAsBytes) ==
    [idx |-> [idx EXCEPT !.File = WriteAt(WriteAt(idx.File, idx.FileSize, entryAsBytes),
                                          indexOffset, Uint64ToByteArray(idx.FileSize)),
                         !.FileSize = idx.FileSize + Len(entryAsBytes)],
     err |-> NoErr]

\* a first entry of a list that is not marked as its root
appendNewEntryNotRoot(idx, prefix, indexOffset, key, kvAddr, expiry) ==
    AppendedRootEntry(idx, indexOffset,
                      InvertedIndexEntryAsBytes(
                          NewInvertedIndexEntry(prefix, key, expiry, FALSE, kvAddr,
                                                idx.FileSize, idx.FileSize)))

appendNewRootEntry(idx, prefix, indexOffset, key, kvAddr, expiry) ==
    AppendedRootEntry(idx, indexOffset,
                      InvertedIndexEntryAsBytes(
                          NewInvertedIndexEntry(prefix, key, expiry, TRUE, kvAddr,
                                                idx.FileSize, idx.FileSize)))

\* addrBelongsToPrefix once the index key size at the address has been read
PrefixIsAt(idx, address, prefix, indexKeySize, keyBuf) ==
    IF indexKeySize.err # NoErr THEN Fail(indexKeySize.err, FALSE)
    ELSE IF Len(prefix) # indexKeySize.val THEN Ok(FALSE)
    ELSE Ok(SubSeq(keyBuf.data, 1, keyBuf.n) = prefix)

\* addrBelongsToPrefix once the address has been decoded
AddressBelongsToPrefix(idx, address, prefix, sizeBuf) ==
    IF address.err # NoErr THEN Fail(address.err, FALSE)
    ELSE IF address.val >= idx.FileSize THEN Ok(FALSE)
    ELSE PrefixIsAt(idx, address.val, prefix,
                    Uint32FromByteArray(SubSeq(sizeBuf.data, 1, sizeBuf.n)),
                    ReadAt(idx.File, address.val + 8, Len(prefix)))

addrBelongsToPrefix(idx, addr, prefix) ==
    AddressBelongsToPrefix(idx, Uint64FromByteArray(addr), prefix,
                           ReadAt(idx.File, FromBigEndian(addr) + 4, 4))

\* upsertEntry at the end of the list: the new entry is in the file and the
\* entry at addr points to it; rootEntry is the root entry read back
LinkedToRoot(idx, withNext, rootAddrU64, newEntryLen, rootEntry) ==
    IF rootEntry.err # NoErr THEN [idx |-> [idx EXCEPT !.File = withNext], err |-> rootEntry.err]
    ELSE [idx |-> [idx EXCEPT !.File = UpdatePreviousOffsetOnFile(withNext, rootEntry.val,
                                                                   rootAddrU64, idx.FileSize),
                              !.FileSize = idx.FileSize + newEntryLen],
          err |-> NoErr]

\* the bytes of the root entry read back
ReadRootEntry(idx, withNext, rootAddrU64, newEntryLen, rootEntryBytes) ==
    IF rootEntryBytes.err # NoErr
    THEN [idx |-> [idx EXCEPT !.File = withNext], err |-> rootEntryBytes.err]
    ELSE LinkedToRoot(idx, withNext, rootAddrU64, newEntryLen,
                      ExtractInvertedIndexEntryFromByteArray(rootEntryBytes.val, 0))

\* upsertEntry at the end of the list: withNext is the file with the new entry
\* written and the next offset of the entry at addr updated
AppendedToList(idx, withNext, rootAddrU64, newEntryLen) ==
    ReadRootEntry(idx, withNext, rootAddrU64, newEntryLen, readEntryBytes(withNext, rootAddrU64))

\* upsertEntry at the end of the list, which is the entry at addr
AppendToList(idx, prefix, rootAddrU64, addr, key, kvAddr, expiry, entry, newEntry) ==
    AppendedToList(idx,
                   UpdateNextOffsetOnFile(writeEntryToFile(idx.File, idx.FileSize, newEntry),
                                          entry, addr, idx.FileSize),
                   rootAddrU64, Len(InvertedIndexEntryAsBytes(newEntry)))

\* the loop of upsertEntry, at the entry at addr
RECURSIVE upsertEntryAt(_, _, _, _, _, _, _, _)
\* upsertEntry without the comparison of the keys: every Add walks to the end
\* of the list and appends
UpsertIntoAppendOnly(idx, prefix, rootAddrU64, addr, key, kvAddr, expiry, fuel, entry) ==
    IF entry.err # NoErr THEN [idx |-> idx, err |-> entry.err]
    ELSE IF entry.val.NextOffset = rootAddrU64
    THEN AppendToList(idx, prefix, rootAddrU64, addr, key, kvAddr, expiry, entry.val,
                      NewInvertedIndexEntry(prefix, key, expiry, FALSE, kvAddr, rootAddrU64, addr))
    ELSE IF entry.val.NextOffset = 0 THEN [idx |-> idx, err |-> NoErr]
    ELSE upsertEntryAt(idx, prefix, rootAddrU64, entry.val.NextOffset, key, kvAddr,
                       expiry, fuel - 1)

UpsertInto(idx, prefix, rootAddrU64, addr, key, kvAddr, expiry, fuel, entry) ==
    IF entry.err # NoErr THEN [idx |-> idx, err |-> entry.err]
    ELSE IF entry.val.Key = key
    THEN [idx |-> [idx EXCEPT !.File = writeEntryToFile(idx.File, addr,
                                  [entry.val EXCEPT !.KvAddress = kvAddr, !.Expiry = expiry])],
          err |-> NoErr]
    ELSE IF entry.val.NextOffset = rootAddrU64
    THEN AppendToList(idx, prefix, rootAddrU64, addr, key, kvAddr, expiry, entry.val,
                      NewInvertedIndexEntry(prefix, key, expiry, FALSE, kvAddr, rootAddrU64, addr))
    ELSE IF entry.val.NextOffset = 0 THEN [idx |-> idx, err |-> NoErr]
    ELSE upsertEntryAt(idx, prefix, rootAddrU64, entry.val.NextOffset, key, kvAddr,
                       expiry, fuel - 1)

UpsertBytes(idx, prefix, rootAddrU64, addr, key, kvAddr, expiry, fuel, entryBytes) ==
    IF entryBytes.err # NoErr THEN [idx |-> idx, err |-> entryBytes.err]
    ELSE UpsertInto(idx, prefix, rootAddrU64, addr, key, kvAddr, expiry, fuel,
                    ExtractInvertedIndexEntryFromByteArray(entryBytes.val, 0))

upsertEntryAt(idx, prefix, rootAddrU64, addr, key, kvAddr, expiry, fuel) ==
    IF fuel = 0 THEN [idx |-> idx, err |-> Diverges]
    ELSE UpsertBytes(idx, prefix, rootAddrU64, addr, key, kvAddr, expiry, fuel,
                     readEntryBytes(idx.File, addr))

UpsertFromRoot(idx, prefix, rootAddrU64, key, kvAddr, expiry) ==
    IF rootAddrU64.err # NoErr THEN [idx |-> idx, err |-> rootAddrU64.err]
    ELSE upsertEntryAt(idx, prefix, rootAddrU64.val, rootAddrU64.val, key, kvAddr,
                       expiry, WalkFuel(idx.File))

upsertEntry(idx, prefix, rootAddr, key, kvAddr, expiry) ==
    UpsertFromRoot(idx, prefix, Uint64FromByteArray(rootAddr), key, kvAddr, expiry)

\* the inner loop of Add: the slot of prefix in the index block indexBlock
RECURSIVE AddPrefixInBlock(_, _, _, _, _, _)
AddForPrefix(idx, prefix, indexBlock, key, kvAddr, expiry, addr, isForPrefix) ==
    IF isForPrefix.err # NoErr THEN [idx |-> idx, err |-> isForPrefix.err]
    ELSE IF isForPrefix.val THEN upsertEntry(idx, prefix, addr, key, kvAddr, expiry)
    ELSE IF indexBlock + 1 >= idx.header.NumberOfIndexBlocks
    THEN [idx |-> idx, err |-> ErrCollisionSaturation]
    ELSE AddPrefixInBlock(idx, prefix, indexBlock + 1, key, kvAddr, expiry)

AddAtAddress(idx, prefix, indexBlock, key, kvAddr, expiry, indexOffset, addr) ==
    IF addr.err # NoErr THEN [idx |-> idx, err |-> addr.err]
    ELSE IF addr.val = Zeros(IndexEntrySizeInBytes)
    THEN appendNewRootEntry(idx, prefix, indexOffset, key, kvAddr, expiry)
    ELSE AddForPrefix(idx, prefix, indexBlock, key, kvAddr, expiry, addr.val,
                      addrBelongsToPrefix(idx, addr.val, prefix))

AddAtOffset(idx, prefix, indexBlock, key, kvAddr, expiry, indexOffset) ==
    IF indexOffset.err # NoErr THEN [idx |-> idx, err |-> indexOffset.err]
    ELSE AddAtAddress(idx, prefix, indexBlock, key, kvAddr, expiry, indexOffset.val,
                      readEntryAddress(idx, indexOffset.val))

AddPrefixInBlock(idx, prefix, indexBlock, key, kvAddr, expiry) ==
    AddAtOffset(idx, prefix, indexBlock, key, kvAddr, expiry,
                GetIndexOffsetInNthBlock(idx.header, GetIndexOffset(idx.header, prefix),
                                         indexBlock))

\* the outer loop of Add: the prefixes key[:i], key[:i+1], ...
RECURSIVE AddFromPrefix(_, _, _, _, _)
AddedPrefix(r, i, key, kvAddr, expiry) ==
    IF r.err # NoErr THEN r ELSE AddFromPrefix(r.idx, i + 1, key, kvAddr, expiry)

AddFromPrefix(idx, i, key, kvAddr, expiry) ==
    IF i >= Min(Len(key), idx.MaxIndexKeyLen) + 1 THEN [idx |-> idx, err |-> NoErr]
    ELSE AddedPrefix(AddPrefixInBlock(idx, SubSeq(key, 1, i), 0, key, kvAddr, expiry),
                     i, key, kvAddr, expiry)

IndexAdd(idx, key, kvAddr, expiry) == AddFromPrefix(idx, 1, key, kvAddr, expiry)

\* InvertedIndex.Remove does nothing
IndexRemove(idx, key) == [idx |-> idx, err |-> NoErr]

\* Clear, with the file it initializes
IndexClearedTo(idx, file) ==
    [idx |-> [idx EXCEPT !.File = file, !.FileSize = Len(file)], err |-> NoErr]

InitialIndexFile(header) == InitializeFile(InvertedIndexHeaderAsBytes(header), header)

IndexClear(idx) ==
    IndexClearedTo(idx, InitialIndexFile(
        NewInvertedIndexHeader(idx.header.MaxKeys, idx.header.RedundantBlocks,
                               idx.header.BlockSize, idx.header.MaxIndexKeyLen)))

\* the loop of getMatchedKvAddrsForPrefix, at the entry at addr, at clock value t
RECURSIVE MatchedKvAddrsFrom(_, _, _, _, _, _, _, _, _, _)
\* a walk that stops at a next offset of zero only
MatchedNextZeroStop(idx, term, rootAddr, next, skip, limit, skipped, matched, fuel, t, isMatch) ==
    IF isMatch /\ limit > 0 /\ Len(matched) >= limit THEN Ok(matched)
    ELSE IF next = 0 THEN Ok(matched)
    ELSE MatchedKvAddrsFrom(idx, term, rootAddr, next, skip, limit, skipped, matched,
                            fuel - 1, t)

\* the step of the loop after the entry was judged: it matched and was skipped
\* (skipThis), and matched are the addresses so far
MatchedNext(idx, term, rootAddr, next, skip, limit, skipped, matched, fuel, t, isMatch) ==
    IF isMatch /\ limit > 0 /\ Len(matched) >= limit THEN Ok(matched)
    ELSE IF next = rootAddr \/ next = 0 THEN Ok(matched)
    ELSE MatchedKvAddrsFrom(idx, term, rootAddr, next, skip, limit, skipped, matched,
                            fuel - 1, t)

MatchedEntry(idx, term, rootAddr, skip, limit, skipped, matchedAddrs, fuel, t, entry, isMatch) ==
    MatchedNext(idx, term, rootAddr, entry.NextOffset, skip, limit,
                IF isMatch /\ skipped < skip THEN skipped + 1 ELSE skipped,
                IF isMatch /\ ~(skipped < skip) THEN Append(matchedAddrs, entry.KvAddress)
                ELSE matchedAddrs,
                fuel, t, isMatch)

MatchedParsed(idx, term, rootAddr, skip, limit, skipped, matchedAddrs, fuel, t, entry) ==
    IF entry.err # NoErr THEN Fail(entry.err, <<>>)
    ELSE MatchedEntry(idx, term, rootAddr, skip, limit, skipped, matchedAddrs, fuel, t,
                      entry.val,
                      ~IsExpired(entry.val.Expiry, t) /\ BytesContains(entry.val.Key, term))

MatchedBytes(idx, term, rootAddr, skip, limit, skipped, matchedAddrs, fuel, t, entryBytes) ==
    IF entryBytes.err # NoErr THEN Fail(entryBytes.err, <<>>)
    ELSE MatchedParsed(idx, term, rootAddr, skip, limit, skipped, matchedAddrs, fuel, t,
                       ExtractInvertedIndexEntryFromByteArray(entryBytes.val, 0))

MatchedKvAddrsFrom(idx, term, rootAddr, addr, skip, limit, skipped, matchedAddrs, fuel, t) ==
    IF fuel = 0 THEN Fail(Diverges, <<>>)
    ELSE MatchedBytes(idx, term, rootAddr, skip, limit, skipped, matchedAddrs, fuel, t,
                      readEntryBytes(idx.File, addr))

MatchedFromRoot(idx, term, rootAddr, skip, limit, t) ==
    IF rootAddr.err # NoErr THEN Fail(rootAddr.err, <<>>)
    ELSE MatchedKvAddrsFrom(idx, term, rootAddr.val, rootAddr.val, skip, limit, 0, <<>>,
                            WalkFuel(idx.File), t)

getMatchedKvAddrsForPrefix(idx, term, prefixRootAddr, skip, limit, t) ==
    MatchedFromRoot(idx, term, Uint64FromByteArray(prefixRootAddr), skip, limit, t)

\* the loop of InvertedIndex.Search over the index blocks
RECURSIVE SearchInBlock(_, _, _, _, _, _)
SearchForPrefix(idx, term, indexBlock, skip, limit, t, addr, isForPrefix) ==
    IF isForPrefix.err # NoErr THEN Fail(isForPrefix.err, <<>>)
    ELSE IF isForPrefix.val THEN getMatchedKvAddrsForPrefix(idx, term, addr, skip, limit, t)
    ELSE SearchInBlock(idx, term, indexBlock + 1, skip, limit, t)

SearchAtAddress(idx, term, prefix, indexBlock, skip, limit, t, addr) ==
    IF addr.err # NoErr THEN Fail(addr.err, <<>>)
    ELSE IF addr.val = Zeros(IndexEntrySizeInBytes) THEN Ok(<<>>)
    ELSE SearchForPrefix(idx, term, indexBlock, skip, limit, t, addr.val,
                         addrBelongsToPrefix(idx, addr.val, prefix))

SearchAtOffset(idx, term, prefix, indexBlock, skip, limit, t, indexOffset) ==
    IF indexOffset.err # NoErr THEN Fail(indexOffset.err, <<>>)
    ELSE SearchAtAddress(idx, term, prefix, indexBlock, skip, limit, t,
                         readEntryAddress(idx, indexOffset.val))

SearchPrefixInBlock(idx, term, prefix, indexBlock, skip, limit, t) ==
    SearchAtOffset(idx, term, prefix, indexBlock, skip, limit, t,
                   GetIndexOffsetInNthBlock(idx.header, GetIndexOffset(idx.header, prefix),
                                            indexBlock))

SearchInBlock(idx, term, indexBlock, skip, limit, t) ==
    IF indexBlock >= idx.header.NumberOfIndexBlocks THEN Ok(<<>>)
    ELSE SearchPrefixInBlock(idx, term, SubSeq(term, 1, Min(Len(term), idx.MaxIndexKeyLen)),
                             indexBlock, skip, limit, t)

IndexSearch(idx, term, skip, limit, t) == SearchInBlock(idx, term, 0, skip, limit, t)

(***************************************************************************)
(* BufferPool.CompactFile.  tmpFile is the content of tmp__compact.scdb    *)
(* when CompactFile opens it (empty when it does not exist: it is opened   *)
(* without truncation, and stays behind when CompactFile fails).           *)
(***************************************************************************)
readIndexBlock(p, blockNum, blockSize) ==
    LET r == ReadAt(p.File, HeaderSizeInBytes + (blockNum * blockSize), blockSize)
    IN  SubSeq(r.data, 1, r.n)

\* getKvByteArray once the size was read: data is the read of the whole entry
KvByteArrayOfSize(data) == IF data.eof THEN Fail(ErrEOF, data.data) ELSE Ok(data.data)

\* getKvByteArray once the address is decoded: sizeBytes is the read of the size
KvByteArrayAt(file, addr, sizeBytes) ==
    IF sizeBytes.eof THEN Fail(ErrEOF, <<>>)
    ELSE KvByteArrayOfSize(ReadAt(file, addr, FromBigEndian(sizeBytes.data)))

KvByteArray(file, addr) ==
    IF addr.err # NoErr THEN Fail(addr.err, <<>>)
    ELSE KvByteArrayAt(file, addr.val, ReadAt(file, addr.val, 4))

getKvByteArray(file, addrBytes) == KvByteArray(file, Uint64FromByteArray(addrBytes))

\* the inner loop of CompactFile over the slots of one index block; c is the
\* state of the loops: the search index, the new file, idxOffset, newFileOffset
RECURSIVE CompactSlots(_, _, _, _, _)
\* a live entry was written to the new file, withKv, and added to the search index
CompactedLive(file, c, indexBlock, lwr, t, withKv, kvSize, added) ==
    IF added.err # NoErr
    THEN [c EXCEPT !.newFile = withKv, !.idx = added.idx, !.err = added.err]
    ELSE CompactSlots(file,
                      [c EXCEPT !.newFile = withKv, !.idx = added.idx,
                                !.idxOffset = @ + IndexEntrySizeInBytes,
                                !.newFileOffset = @ + kvSize],
                      indexBlock, lwr + IndexEntrySizeInBytes, t)

\* the entry of a slot was parsed: kv
CompactEntry(file, c, indexBlock, lwr, t, kvByteArray, kv) ==
    IF kv.err # NoErr THEN [c EXCEPT !.err = kv.err]
    ELSE IF ~IsExpired(kv.val.Expiry, t) /\ ~kv.val.IsDeleted
    THEN CompactedLive(file, c, indexBlock, lwr, t,
                       WriteAt(WriteAt(c.newFile, c.newFileOffset, kvByteArray),
                               c.idxOffset, Uint64ToByteArray(c.newFileOffset)),
                       Len(kvByteArray),
                       IndexAdd(c.idx, kv.val.Key, c.newFileOffset, kv.val.Expiry))
    ELSE CompactSlots(file,
                      [c EXCEPT !.newFile = WriteAt(c.newFile, c.idxOffset,
                                                    Zeros(IndexEntrySizeInBytes)),
                                !.idxOffset = @ + IndexEntrySizeInBytes],
                      indexBlock, lwr + IndexEntrySizeInBytes, t)

\* the bytes of the entry of a slot were read: kvByteArray
CompactBytes(file, c, indexBlock, lwr, t, kvByteArray) ==
    IF kvByteArray.err # NoErr THEN [c EXCEPT !.err = kvByteArray.err]
    ELSE CompactEntry(file, c, indexBlock, lwr, t, kvByteArray.val,
                      ExtractKeyValueEntryFromByteArray(kvByteArray.val, 0))

\* the slot at lwr holds idxBytes
CompactSlot(file, c, indexBlock, lwr, t, idxBytes) ==
    IF idxBytes = Zeros(IndexEntrySizeInBytes)
    THEN CompactSlots(file, [c EXCEPT !.idxOffset = @ + IndexEntrySizeInBytes],
                      indexBlock, lwr + IndexEntrySizeInBytes, t)
    ELSE CompactBytes(file, c, indexBlock, lwr, t, getKvByteArray(file, idxBytes))

CompactSlots(file, c, indexBlock, lwr, t) ==
    IF lwr >= Len(indexBlock) THEN c
    ELSE CompactSlot(file, c, indexBlock, lwr, t,
                     SubSeq(indexBlock, lwr + 1, lwr + IndexEntrySizeInBytes))

\* the outer loop of CompactFile over the index blocks
RECURSIVE CompactBlocks(_, _, _, _, _, _)
\* block i was read (indexBlock): it is written to the new file and walked
CompactBlock(p, c, i, numOfBlocks, blockSize, t, indexBlock) ==
    CompactBlocks(p,
                  CompactSlots(p.File,
                               [c EXCEPT !.newFile = WriteAt(c.newFile, c.idxOffset, indexBlock)],
                               indexBlock, 0, t),
                  i + 1, numOfBlocks, blockSize, t)

CompactBlocks(p, c, i, numOfBlocks, blockSize, t) ==
    IF i >= numOfBlocks \/ c.err # NoErr THEN c
    ELSE CompactBlock(p, c, i, numOfBlocks, blockSize, t, readIndexBlock(p, i, blockSize))

\* the end of CompactFile: c is the state the loops ended in
Compacted(p, c) ==
    IF c.err # NoErr
    THEN [bp |-> p, idx |-> c.idx, tmpFile |-> c.newFile, err |-> c.err]
    ELSE [bp |-> [p EXCEPT !.kvBuffers = <<>>, !.indexBuffers = EmptyMap,
                           !.File = c.newFile, !.FileSize = c.newFileOffset],
          idx |-> c.idx, tmpFile |-> <<>>, err |-> NoErr]

\* CompactFile once the header of the file was read
CompactWithHeader(p, searchIndex, tmpFile, t, header) ==
    IF header.err # NoErr
    THEN [bp |-> p, idx |-> searchIndex, tmpFile |-> tmpFile, err |-> header.err]
    ELSE Compacted(p,
                   CompactBlocks(p,
                                 [idx |-> searchIndex,
                                  newFile |-> WriteAt(tmpFile, 0, DbFileHeaderAsBytes(header.val)),
                                  idxOffset |-> HeaderSizeInBytes,
                                  newFileOffset |-> header.val.ValuesStartPoint,
                                  err |-> NoErr],
                                 0, header.val.NumberOfIndexBlocks, header.val.NetBlockSize, t))

\* CompactFile at clock value t: the pool, the search index and the tmp file
\* afterwards
CompactFile(p, searchIndex, tmpFile, t) ==
    CompactWithHeader(p, searchIndex, tmpFile, t, ExtractDbFileHeaderFromFile(p.File))

(***************************************************************************)
(* Store (scdb/store.go).  A store is a record with the fields bufferPool,  *)
(* searchIndex, header and isClosed of the Store struct, and tmpFile, the  *)
(* content of tmp__compact.scdb in the store's folder.  An operation maps  *)
(* a store and the clock value t to the store afterwards (s), the error    *)
(* (err) and what it returns.                                              *)
(***************************************************************************)
\* New on an empty folder, with the buffer pool it made
NewStoreOn(bufferPool, maxKeys, redundantBlocks, maxIndexKeyLen) ==
    [bufferPool |-> bufferPool,
     header |-> ExtractDbFileHeaderFromFile(bufferPool.File).val,
     searchIndex |-> NewInvertedIndex(maxIndexKeyLen, maxKeys, redundantBlocks),
     isClosed |-> FALSE,
     tmpFile |-> <<>>]

NewStore(maxKeys, redundantBlocks, poolCapacity, maxIndexKeyLen) ==
    NewStoreOn(NewBufferPool(poolCapacity, maxKeys, redundantBlocks, PageSize),
               maxKeys, redundantBlocks, maxIndexKeyLen)

WithPool(s, bp) == [s EXCEPT !.bufferPool = bp]

\* the loop of Set over the index blocks
RECURSIVE SetInBlock(_, _, _, _, _)
\* Set: the index was updated (indexed); the search index is updated last
SetIndexed(s, k, expiry, prevLastOffset, indexed) ==
    IF indexed.err # NoErr THEN [s |-> WithPool(s, indexed.bp), err |-> indexed.err]
    ELSE [s |-> WithPool(s, indexed.bp), err |-> NoErr]

SetInSearchIndex(r, added) ==
    IF r.err # NoErr THEN r
    ELSE [s |-> [r.s EXCEPT !.searchIndex = added.idx], err |-> added.err]

\* Set: the entry was appended to the file (appended)
SetAppended(s, k, expiry, indexOffset, appended) ==
    SetInSearchIndex(
        SetIndexed(s, k, expiry, appended.val,
                   UpdateIndex(appended.bp, indexOffset, Uint64ToByteArray(appended.val))),
        IndexAdd(s.searchIndex, k, appended.val, expiry))

\* Set: the slot is this key's, or is not
SetInSlot(s, k, v, expiry, idxBlock, indexOffset, isOffsetForKey) ==
    IF isOffsetForKey.err # NoErr
    THEN [s |-> WithPool(s, isOffsetForKey.bp), err |-> isOffsetForKey.err]
    ELSE IF isOffsetForKey.val
    THEN SetAppended(s, k, expiry, indexOffset,
                     PoolAppend(isOffsetForKey.bp,
                                KeyValueEntryAsBytes(NewKeyValueEntry(k, v, expiry))))
    ELSE SetInBlock(WithPool(s, isOffsetForKey.bp), k, v, expiry, idxBlock + 1)

\* Set: the slot holds kvOffset
SetAtKvOffset(s, k, v, expiry, idxBlock, indexOffset, bp, kvOffset) ==
    IF kvOffset.err # NoErr THEN [s |-> WithPool(s, bp), err |-> kvOffset.err]
    ELSE SetInSlot(s, k, v, expiry, idxBlock, indexOffset,
                   IF kvOffset.val = 0 THEN [bp |-> bp, err |-> NoErr, val |-> TRUE]
                   ELSE AddrBelongsToKey(bp, kvOffset.val, k))

\* Set: the slot was read (kvOffsetInBytes)
SetWithIndex(s, k, v, expiry, idxBlock, indexOffset, kvOffsetInBytes) ==
    IF kvOffsetInBytes.err # NoErr
    THEN [s |-> WithPool(s, kvOffsetInBytes.bp), err |-> kvOffsetInBytes.err]
    ELSE SetAtKvOffset(s, k, v, expiry, idxBlock, indexOffset, kvOffsetInBytes.bp,
                       Uint64FromByteArray(kvOffsetInBytes.val))

SetAtOffset(s, k, v, expiry, idxBlock, indexOffset) ==
    IF indexOffset.err # NoErr THEN [s |-> s, err |-> indexOffset.err]
    ELSE SetWithIndex(s, k, v, expiry, idxBlock, indexOffset.val,
                      ReadIndex(s.bufferPool, indexOffset.val))

SetInBlock(s, k, v, expiry, idxBlock) ==
    IF idxBlock >= s.header.NumberOfIndexBlocks THEN [s |-> s, err |-> ErrCollisionSaturation]
    ELSE SetAtOffset(s, k, v, expiry, idxBlock,
                     GetIndexOffsetInNthBlock(s.header, GetIndexOffset(s.header, k), idxBlock))

StoreSet(s, k, v, ttl, t) ==
    SetInBlock(s, k, v, IF ttl = NoTtl THEN 0 ELSE t + ttl[1], 0)

\* the result of Get: found is FALSE for the nil value
GetResult(s, err, found, val) == [s |-> s, err |-> err, found |-> found, val |-> val]

\* the loop of Get over the index blocks
RECURSIVE GetInBlock(_, _, _, _)
\* Get: the pool returned value for the address in the slot
GetFromValue(s, k, idxBlock, t, value) ==
    IF value.err # NoErr THEN GetResult(WithPool(s, value.bp), value.err, FALSE, <<>>)
    ELSE IF value.found THEN GetResult(WithPool(s, value.bp), NoErr, TRUE, value.val.Value)
    ELSE GetInBlock(WithPool(s, value.bp), k, idxBlock + 1, t)

\* Get: the slot holds kvOffset
GetAtKvOffset(s, k, idxBlock, t, bp, kvOffset) ==
    IF kvOffset.err # NoErr THEN GetResult(WithPool(s, bp), kvOffset.err, FALSE, <<>>)
    ELSE GetFromValue(s, k, idxBlock, t, GetValue(bp, kvOffset.val, k, t))

\* Get: the slot was read (kvOffsetInBytes)
GetWithIndex(s, k, idxBlock, t, kvOffsetInBytes) ==
    IF kvOffsetInBytes.err # NoErr
    THEN GetResult(WithPool(s, kvOffsetInBytes.bp), kvOffsetInBytes.err, FALSE, <<>>)
    ELSE IF kvOffsetInBytes.val = Zeros(IndexEntrySizeInBytes)
    THEN GetInBlock(WithPool(s, kvOffsetInBytes.bp), k, idxBlock + 1, t)
    ELSE GetAtKvOffset(s, k, idxBlock, t, kvOffsetInBytes.bp,
                       Uint64FromByteArray(kvOffsetInBytes.val))

GetAtOffset(s, k, idxBlock, t, indexOffset) ==
    IF indexOffset.err # NoErr THEN GetResult(s, indexOffset.err, FALSE, <<>>)
    ELSE GetWithIndex(s, k, idxBlock, t, ReadIndex(s.bufferPool, indexOffset.val))

GetInBlock(s, k, idxBlock, t) ==
    IF idxBlock >= s.header.NumberOfIndexBlocks THEN GetResult(s, NoErr, FALSE, <<>>)
    ELSE GetAtOffset(s, k, idxBlock, t,
                     GetIndexOffsetInNthBlock(s.header, GetIndexOffset(s.header, k), idxBlock))

StoreGet(s, k, t) == GetInBlock(s, k, 0, t)

\* Search: the search index returned addrs
SearchFromAddrs(s, addrs, t) ==
    IF addrs.err # NoErr THEN [s |-> s, err |-> addrs.err, val |-> <<>>]
    ELSE [s |-> s] @@ GetManyKeyValues(s.bufferPool, addrs.val, t)

StoreSearch(s, term, skip, limit, t) ==
    SearchFromAddrs(s, IndexSearch(s.searchIndex, term, skip, limit, t), t)

\* the loop of Delete over the index blocks
RECURSIVE DeleteInBlock(_, _, _)
\* Delete: the pool tried to delete the entry in the slot
DeleteTried(s, k, idxBlock, isOffsetForKey) ==
    IF isOffsetForKey.err # NoErr
    THEN [s |-> WithPool(s, isOffsetForKey.bp), err |-> isOffsetForKey.err]
    ELSE IF isOffsetForKey.val THEN [s |-> WithPool(s, isOffsetForKey.bp), err |-> NoErr]
    ELSE DeleteInBlock(WithPool(s, isOffsetForKey.bp), k, idxBlock + 1)

\* Delete: the slot holds kvOffset
DeleteAtKvOffset(s, k, idxBlock, bp, kvOffset) ==
    IF kvOffset.err # NoErr THEN [s |-> WithPool(s, bp), err |-> kvOffset.err]
    ELSE DeleteTried(s, k, idxBlock, TryDeleteKvEntry(bp, kvOffset.val, k))

\* Delete: the slot was read (kvOffsetInBytes)
DeleteWithIndex(s, k, idxBlock, kvOffsetInBytes) ==
    IF kvOffsetInBytes.err # NoErr
    THEN [s |-> WithPool(s, kvOffsetInBytes.bp), err |-> kvOffsetInBytes.err]
    ELSE IF kvOffsetInBytes.val = Zeros(IndexEntrySizeInBytes)
    THEN DeleteInBlock(WithPool(s, kvOffsetInBytes.bp), k, idxBlock + 1)
    ELSE DeleteAtKvOffset(s, k, idxBlock, kvOffsetInBytes.bp,
                          Uint64FromByteArray(kvOffsetInBytes.val))

DeleteAtOffset(s, k, idxBlock, indexOffset) ==
    IF indexOffset.err # NoErr THEN [s |-> s, err |-> indexOffset.err]
    ELSE DeleteWithIndex(s, k, idxBlock, ReadIndex(s.bufferPool, indexOffset.val))

\* Delete: the key was in no block; the search index is told to remove it
DeleteNotFound(s, removed) == [s |-> [s EXCEPT !.searchIndex = removed.idx], err |-> removed.err]

DeleteInBlock(s, k, idxBlock) ==
    IF idxBlock >= s.header.NumberOfIndexBlocks
    THEN DeleteNotFound(s, IndexRemove(s.searchIndex, k))
    ELSE DeleteAtOffset(s, k, idxBlock,
                        GetIndexOffsetInNthBlock(s.header, GetIndexOffset(s.header, k),
                                                 idxBlock))

StoreDelete(s, k) == DeleteInBlock(s, k, 0)

\* Clear: the pool cleared its file (cleared), then the search index is cleared
ClearIndex(s, index) == [s |-> [s EXCEPT !.searchIndex = index.idx], err |-> index.err]

StoreCleared(s, cleared) ==
    IF cleared.err # NoErr THEN [s |-> s, err |-> cleared.err]
    ELSE ClearIndex(WithPool(s, cleared.bp), IndexClear(s.searchIndex))

StoreClear(s) == StoreCleared(s, ClearFile(s.bufferPool))

StoreCompacted(s, c) ==
    [s |-> [s EXCEPT !.bufferPool = c.bp, !.searchIndex = c.idx, !.tmpFile = c.tmpFile],
     err |-> c.err]

StoreCompact(s, t) ==
    StoreCompacted(s, CompactFile(s.bufferPool, s.searchIndex, s.tmpFile, t))

(***************************************************************************)
(* The store driven by one caller: each action is one call of the API, run *)
(* to completion.                                                          *)
(*   store  the store and its files                                        *)
(*   now    the clock, time.Now().Unix()                                   *)
(*   last   the call that returned last, with the clock value it was made  *)
(*          at and what it returned                                        *)
(*   ref    per key, what the calls so far say about it: the value and     *)
(*          expiry of its latest Set and how it went since                 *)
(*   nsets  the number of calls of Set made                                *)
(* The remaining variables belong to the concurrent callers further down.  *)
(***************************************************************************)
VARIABLES store, now, last, ref, nsets,
          mu, pc, arg, local, driver, closeCh, seq, want, ncalls, ticks

vars == <<store, now, last, ref, nsets,
          mu, pc, arg, local, driver, closeCh, seq, want, ncalls, ticks>>
concVars == <<mu, pc, arg, local, driver, closeCh, seq, want, ncalls, ticks>>

NoCall == [op |-> "none", k |-> <<>>, v |-> <<>>, ttl |-> NoTtl, skip |-> 0, limit |-> 0,
           at |-> 0, err |-> NoErr, found |-> FALSE, ret |-> <<>>]

\* a call made now
Call(op, k, v, ttl, err) ==
    [NoCall EXCEPT !.op = op, !.k = k, !.v = v, !.ttl = ttl, !.at = now, !.err = err]

NoRef == [st |-> "never", v |-> <<>>, expiry |-> 0, n |-> 0]

Skips == {0, 1}
Limits == {0, 1}

SeqInit ==
    /\ store = NewStore(MaxKeys, DefaultRedundantBlocks, PoolCapacity, MaxIndexKeyLen)
    /\ now = 1
    /\ last = NoCall
    /\ ref = [k \in AllKeys |-> NoRef]
    /\ nsets = 0

Returned(call) ==
    /\ last' = call
    /\ UNCHANGED concVars

\* the call returned r
SetReturned(k, v, ttl, r) ==
    /\ nsets' = nsets + 1
    /\ store' = r.s
    /\ ref' = [ref EXCEPT ![k] =
                  IF r.err = NoErr
                  THEN [st |-> "set", v |-> v,
                        expiry |-> IF ttl = NoTtl THEN 0 ELSE now + ttl[1],
                        n |-> IF ref[k].st = "set" THEN 2 ELSE 1]
                  ELSE [NoRef EXCEPT !.st = "unknown"]]
    /\ Returned(Call("Set", k, v, ttl, r.err))
    /\ UNCHANGED now

Set(k, v, ttl) == SetReturned(k, v, ttl, StoreSet(store, k, v, ttl, now))

GetReturned(k, r) ==
    /\ store' = r.s
    /\ Returned([Call("Get", k, <<>>, NoTtl, r.err) EXCEPT !.found = r.found, !.ret = r.val])
    /\ UNCHANGED <<now, ref, nsets>>

Get(k) == GetReturned(k, StoreGet(store, k, now))

DeleteReturned(k, r) ==
    /\ store' = r.s
    /\ ref' = [ref EXCEPT ![k] = [NoRef EXCEPT !.st = IF r.err = NoErr THEN "deleted"
                                                      ELSE "unknown"]]
    /\ Returned(Call("Delete", k, <<>>, NoTtl, r.err))
    /\ UNCHANGED <<now, nsets>>

Delete(k) == DeleteReturned(k, StoreDelete(store, k))

ClearReturned(r) ==
    /\ store' = r.s
    /\ ref' = [k \in AllKeys |-> [NoRef EXCEPT !.st = IF r.err = NoErr THEN "cleared"
                                                   ELSE "unknown"]]
    /\ Returned(Call("Clear", <<>>, <<>>, NoTtl, r.err))
    /\ UNCHANGED <<now, nsets>>

Clear == ClearReturned(StoreClear(store))

CompactReturned(r) ==
    /\ store' = r.s
    /\ Returned(Call("Compact", <<>>, <<>>, NoTtl, r.err))
    /\ UNCHANGED <<now, ref, nsets>>

Compact == CompactReturned(StoreCompact(store, now))

SearchReturned(term, skip, limit, r) ==
    /\ store' = r.s
    /\ Returned([Call("Search", term, <<>>, NoTtl, r.err) EXCEPT
                    !.skip = skip, !.limit = limit, !.ret = r.val])
    /\ UNCHANGED <<now, ref, nsets>>

Search(term, skip, limit) ==
    SearchReturned(term, skip, limit, StoreSearch(store, term, skip, limit, now))

\* a second passes
Tick ==
    /\ now < MaxTime
    /\ now' = now + 1
    /\ UNCHANGED <<store, last, ref, nsets>>
    /\ UNCHANGED concVars

\* one caller: no thread waits for the mutex and the compaction interval (an
\* hour by default) never elapses
ConcIdle ==
    /\ mu = "free"
    /\ pc = <<>>
    /\ arg = <<>>
    /\ local = <<>>
    /\ driver = "off"
    /\ closeCh = "open"
    /\ seq = <<>>
    /\ want = NoCall
    /\ ncalls = 0
    /\ ticks = 0

Init == SeqInit /\ ConcIdle

\* calls without ttl, on a clock that stands still
Next ==
    \/ \E k \in Keys, v \in Values : nsets < MaxSets /\ Set(k, v, NoTtl)
    \/ \E k \in Keys : Get(k)
    \/ \E k \in Keys : Delete(k)
    \/ Clear
    \/ Compact

Spec == Init /\ [][Next]_vars

\* calls with and without ttl while the clock runs, and searches
TtlNext ==
    \/ \E k \in Keys, v \in NonEmptyValues, ttl \in Ttls : nsets < MaxSets /\ Set(k, v, ttl)
    \/ \E k \in Keys : Get(k)
    \/ Compact
    \/ \E term \in SearchTerms : Search(term, 0, 0)
    \/ Tick

TtlSpec == Init /\ [][TtlNext]_vars

\* longer runs of calls on two keys that share their slot
RewriteNext ==
    \/ \E k \in Keys, v \in NonEmptyValues : nsets < MaxRewrites /\ Set(k, v, NoTtl)
    \/ \E k \in Keys : Get(k)
    \/ \E k \in Keys : Delete(k)
    \/ Compact
    \/ \E term \in SearchTerms : Search(term, 0, 0)

RewriteSpec == Init /\ [][RewriteNext]_vars

\* three keys that share their slot in every index block
ProbeNext ==
    \/ \E k \in ProbeKeys, v \in NonEmptyValues : nsets < MaxRewrites /\ Set(k, v, NoTtl)
    \/ \E k \in ProbeKeys : Get(k)
    \/ \E k \in ProbeKeys : Delete(k)

ProbeSpec == Init /\ [][ProbeNext]_vars

\* stores made with every pool capacity from 1 to PoolCapacity, with one or
\* two redundant index blocks
CapacityInit ==
    /\ \E capacity \in 1..PoolCapacity,
          redundantBlocks \in {DefaultRedundantBlocks, DefaultRedundantBlocks + 1} :
           store = NewStore(MaxKeys, redundantBlocks, capacity, MaxIndexKeyLen)
    /\ now = 1
    /\ last = NoCall
    /\ ref = [k \in AllKeys |-> NoRef]
    /\ nsets = 0
    /\ ConcIdle

CapacityNext ==
    \/ \E k \in Keys, v \in NonEmptyValues : nsets < MaxSets /\ Set(k, v, NoTtl)
    \/ \E k \in Keys : Get(k)
    \/ \E k \in Keys : Delete(k)
    \/ Compact

CapacitySpec == CapacityInit /\ [][CapacityNext]_vars

\* three keys that share the prefix "a", so that its list in the search index
\* grows to three nodes, with Clear and Compact between the Sets
ListKeys == {KeyA, KeyAG, KeyAAB}
ListTerms == {KeyA, KeyAG, <<97, 97>>}

ListNext ==
    \/ \E k \in ListKeys, v \in NonEmptyValues : nsets < MaxRewrites /\ Set(k, v, NoTtl)
    \/ Clear
    \/ Compact
    \/ \E term \in ListTerms : Search(term, 0, 0)

ListSpec == Init /\ [][ListNext]_vars

\* a pool with room for more than one kv buffer, and two keys in different
\* slots, so that records are read in any order
WideKeys == {KeyA, KeyC}

WideInit ==
    /\ store = NewStore(MaxKeys, DefaultRedundantBlocks, PoolCapacity + 1, MaxIndexKeyLen)
    /\ now = 1
    /\ last = NoCall
    /\ ref = [k \in AllKeys |-> NoRef]
    /\ nsets = 0
    /\ ConcIdle

WideNext ==
    \/ \E k \in WideKeys, v \in NonEmptyValues : nsets < MaxRewrites /\ Set(k, v, NoTtl)
    \/ \E k \in WideKeys : Get(k)
    \/ \E k \in WideKeys : Delete(k)
    \/ Compact

WideSpec == WideInit /\ [][WideNext]_vars

\* The store made by New with every pool capacity a caller can pass, zero
\* included; the call is kept in last with its arguments in v.
PoolCapacities == 0..PoolCapacity

NewCall(capacity, redundantBlocks) ==
    [NoCall EXCEPT !.op = "New", !.v = <<capacity, redundantBlocks>>]

PoolSizeInit ==
    /\ \E capacity \in PoolCapacities,
          redundantBlocks \in {DefaultRedundantBlocks, DefaultRedundantBlocks + 1} :
           /\ store = NewStore(MaxKeys, redundantBlocks, capacity, MaxIndexKeyLen)
           /\ last = NewCall(capacity, redundantBlocks)
    /\ now = 1
    /\ ref = [k \in AllKeys |-> NoRef]
    /\ nsets = 0
    /\ ConcIdle

\* make([]*Buffer, 0, kvCap) of a capacity that wrapped around panics
\* (makeslice: cap out of range): New does not return and no operation follows
PoolSizeNext == store.bufferPool.kvCapacity < Huge /\ CapacityNext

PoolSizeSpec == PoolSizeInit /\ [][PoolSizeNext]_vars

\* keys longer than MaxIndexKeyLen, searched by terms up to and beyond it
LongTermNext ==
    \/ \E k \in LongKeys, v \in NonEmptyValues : nsets < MaxSets /\ Set(k, v, NoTtl)
    \/ \E k \in LongKeys : Get(k)
    \/ \E k \in LongKeys : Delete(k)
    \/ Compact
    \/ \E term \in LongTerms, skip \in Skips, limit \in Limits : Search(term, skip, limit)

LongTermSpec == Init /\ [][LongTermNext]_vars

(***************************************************************************)
(* The store called by several threads while the background compaction     *)
(* goroutine runs.  The body of a call is not atomic: it reads the state   *)
(* of the store when it starts and has written its effects when it         *)
(* returns.                                                                *)
(*   mu       the holder of Store.mu, "free" when unlocked                 *)
(*   pc       per thread: "idle", "waiting" in mu.Lock(), "body", or       *)
(*            "sent" (Close after its send on closeCh was received)        *)
(*   arg      per thread, its call                                         *)
(*   local    per thread and for the driver: the store as the body found   *)
(*            it, and what the serial run answers to the call              *)
(*   driver   the goroutine of startBackgroundCompaction: "select",        *)
(*            "ticked" (in Compact, waiting in mu.Lock()), "body",         *)
(*            "stopping" (received from closeCh), "stopped"                *)
(*   closeCh  "open" or "closed"                                           *)
(*   seq      the store of the serial run: the calls applied one at a time *)
(*            in the order in which they acquired the mutex                *)
(*   want     what the serial run answered to the call that returned last  *)
(*   ncalls   the number of calls made                                     *)
(*   ticks    the number of ticks of the ticker the driver received        *)
(***************************************************************************)
Threads == {"t1", "t2"}
Driver == "driver"
ErrClosed == "file already closed"

\* the calls a thread makes
ClientCalls ==
    {Call("Set", KeyA, <<7>>, NoTtl, NoErr), Call("Get", KeyA, <<>>, NoTtl, NoErr),
     Call("Delete", KeyA, <<>>, NoTtl, NoErr), Call("Clear", <<>>, <<>>, NoTtl, NoErr),
     Call("Compact", <<>>, <<>>, NoTtl, NoErr), Call("Search", KeyA, <<>>, NoTtl, NoErr),
     Call("Close", <<>>, <<>>, NoTtl, NoErr)}

\* the Compact the driver calls
DriverCall == Call("Compact", <<>>, <<>>, NoTtl, NoErr)

PoolClose(bp) == [bp EXCEPT !.kvBuffers = <<>>, !.indexBuffers = EmptyMap]

\* Close, without its send on closeCh
StoreClose(s) ==
    IF s.isClosed THEN [s |-> s, err |-> NoErr]
    ELSE [s |-> [s EXCEPT !.isClosed = TRUE, !.bufferPool = PoolClose(s.bufferPool)],
          err |-> NoErr]

\* a call and the store it leaves, from what the operation returned
Outcome(c, r) == [s |-> r.s, call |-> [c EXCEPT !.err = r.err]]
GetOutcome(c, r) == [s |-> r.s, call |-> [c EXCEPT !.err = r.err, !.found = r.found, !.ret = r.val]]
SearchOutcome(c, r) == [s |-> r.s, call |-> [c EXCEPT !.err = r.err, !.ret = r.val]]

\* a call on a closed store: header and searchIndex are nil and the files are
\* closed
ExecClosed(s, c) ==
    IF c.op = "Close" THEN Outcome(c, StoreClose(s))
    ELSE IF c.op \in {"Clear", "Compact"} THEN Outcome(c, [s |-> s, err |-> ErrClosed])
    ELSE Outcome(c, [s |-> s, err |-> Panic])

\* the body of call c run on store s at time t
Exec(s, c, t) ==
    IF s.isClosed THEN ExecClosed(s, c)
    ELSE CASE c.op = "Set" -> Outcome(c, StoreSet(s, c.k, c.v, c.ttl, t))
           [] c.op = "Get" -> GetOutcome(c, StoreGet(s, c.k, t))
           [] c.op = "Delete" -> Outcome(c, StoreDelete(s, c.k))
           [] c.op = "Clear" -> Outcome(c, StoreClear(s))
           [] c.op = "Compact" -> Outcome(c, StoreCompact(s, t))
           [] c.op = "Search" -> SearchOutcome(c, StoreSearch(s, c.k, c.skip, c.limit, t))
           [] c.op = "Close" -> Outcome(c, StoreClose(s))

ConcInit ==
    /\ SeqInit
    /\ mu = "free"
    /\ pc = [t \in Threads |-> "idle"]
    /\ arg = [t \in Threads |-> NoCall]
    /\ local = [t \in Threads \cup {Driver} |-> <<>>]
    /\ driver = "select"
    /\ closeCh = "open"
    /\ seq = store
    /\ want = NoCall
    /\ ncalls = 0
    /\ ticks = 0

\* thread t calls c and reaches mu.Lock()
Invoke(t, c) ==
    /\ pc[t] = "idle"
    /\ ncalls < MaxCalls
    /\ ncalls' = ncalls + 1
    /\ pc' = [pc EXCEPT ![t] = "waiting"]
    /\ arg' = [arg EXCEPT ![t] = c]
    /\ UNCHANGED <<store, now, last, ref, nsets, mu, local, driver, closeCh, seq, want, ticks>>

\* who acquired the mutex, and the serial run takes its call next (e)
Locked(who, e) ==
    /\ mu' = who
    /\ local' = [local EXCEPT ![who] = [snap |-> store, want |-> e.call]]
    /\ seq' = e.s

\* a Lock that does not wait for the mutex to be free
LockUnguarded(t) ==
    /\ pc[t] = "waiting"
    /\ Locked(t, Exec(seq, arg[t], now))
    /\ pc' = [pc EXCEPT ![t] = "body"]
    /\ UNCHANGED <<store, now, last, ref, nsets, arg, driver, closeCh, want, ncalls, ticks>>

\* mu.Lock() returns in thread t, and the body starts
Lock(t) ==
    /\ pc[t] = "waiting"
    /\ mu = "free"
    /\ Locked(t, Exec(seq, arg[t], now))
    /\ pc' = [pc EXCEPT ![t] = "body"]
    /\ UNCHANGED <<store, now, last, ref, nsets, arg, driver, closeCh, want, ncalls, ticks>>

\* thread t returns what its body made of the store (e), and unlocks
Return(t, e) ==
    /\ store' = e.s
    /\ last' = e.call
    /\ want' = local[t].want
    /\ mu' = "free"
    /\ pc' = [pc EXCEPT ![t] = "idle"]

\* the body of a call other than Close ends
Finish(t) ==
    /\ pc[t] = "body"
    /\ arg[t].op # "Close"
    /\ Return(t, Exec(local[t].snap, arg[t], now))
    /\ UNCHANGED <<now, ref, nsets, arg, local, driver, closeCh, seq, ncalls, ticks>>

\* a Close that does not look at isClosed: its send on the closed closeCh panics
CloseUnchecked(t) ==
    /\ pc[t] = "body"
    /\ arg[t].op = "Close"
    /\ local[t].snap.isClosed
    /\ Return(t, [s |-> local[t].snap, call |-> [arg[t] EXCEPT !.err = Panic]])
    /\ UNCHANGED <<now, ref, nsets, arg, local, driver, closeCh, seq, ncalls, ticks>>

\* Close on a closed store returns at once
CloseNoop(t) ==
    /\ pc[t] = "body"
    /\ arg[t].op = "Close"
    /\ local[t].snap.isClosed
    /\ Return(t, Exec(local[t].snap, arg[t], now))
    /\ UNCHANGED <<now, ref, nsets, arg, local, driver, closeCh, seq, ncalls, ticks>>

\* a send on a buffered closeCh: it does not wait for the driver to receive
CloseSignalBuffered(t) ==
    /\ pc[t] = "body"
    /\ arg[t].op = "Close"
    /\ ~local[t].snap.isClosed
    /\ pc' = [pc EXCEPT ![t] = "sent"]
    /\ UNCHANGED <<store, now, last, ref, nsets, mu, arg, local, driver, closeCh, seq, want, ncalls, ticks>>

\* the send of Close on the unbuffered closeCh meets the receive in the
\* driver's select
CloseSignal(t) ==
    /\ pc[t] = "body"
    /\ arg[t].op = "Close"
    /\ ~local[t].snap.isClosed
    /\ driver = "select"
    /\ driver' = "stopping"
    /\ pc' = [pc EXCEPT ![t] = "sent"]
    /\ UNCHANGED <<store, now, last, ref, nsets, mu, arg, local, closeCh, seq, want, ncalls, ticks>>

\* the rest of Close: the channel and the files are closed
CloseFinish(t) ==
    /\ pc[t] = "sent"
    /\ closeCh' = "closed"
    /\ Return(t, Exec(local[t].snap, arg[t], now))
    /\ UNCHANGED <<now, ref, nsets, arg, local, driver, seq, ncalls, ticks>>

\* the driver's select receives from ticker.C and calls Compact
DriverTick ==
    /\ driver = "select"
    /\ ticks < MaxTicks
    /\ ticks' = ticks + 1
    /\ driver' = "ticked"
    /\ UNCHANGED <<store, now, last, ref, nsets, mu, pc, arg, local, closeCh, seq, want, ncalls>>

\* a driver that compacts without waiting for the mutex to be free
DriverLockUnguarded ==
    /\ driver = "ticked"
    /\ Locked(Driver, Exec(seq, DriverCall, now))
    /\ driver' = "body"
    /\ UNCHANGED <<store, now, last, ref, nsets, pc, arg, closeCh, want, ncalls, ticks>>

\* mu.Lock() returns in the driver's Compact
DriverLock ==
    /\ driver = "ticked"
    /\ mu = "free"
    /\ Locked(Driver, Exec(seq, DriverCall, now))
    /\ driver' = "body"
    /\ UNCHANGED <<store, now, last, ref, nsets, pc, arg, closeCh, want, ncalls, ticks>>

\* the driver's Compact did e and returns; the driver drops the error
DriverReturn(e) ==
    /\ store' = e.s
    /\ mu' = "free"
    /\ driver' = "select"

DriverFinish ==
    /\ driver = "body"
    /\ DriverReturn(Exec(local[Driver].snap, DriverCall, now))
    /\ UNCHANGED <<now, last, ref, nsets, pc, arg, local, closeCh, seq, want, ncalls, ticks>>

\* the driver stops its ticker and returns
DriverStop ==
    /\ driver = "stopping"
    /\ driver' = "stopped"
    /\ UNCHANGED <<store, now, last, ref, nsets, mu, pc, arg, local, closeCh, seq, want, ncalls, ticks>>

ThreadStep(t) ==
    \/ Lock(t)
    \/ Finish(t)
    \/ CloseNoop(t)
    \/ CloseSignal(t)
    \/ CloseFinish(t)

DriverStep ==
    \/ DriverLock
    \/ DriverFinish
    \/ DriverStop

ConcNext ==
    \/ \E t \in Threads, c \in ClientCalls : Invoke(t, c)
    \/ \E t \in Threads : ThreadStep(t)
    \/ DriverTick
    \/ DriverStep

ConcSpec == ConcInit /\ [][ConcNext]_vars

(***************************************************************************)
(* A store closed and opened again on its folder by one caller: New finds  *)
(* the two files and reads their headers.  The caller does not use the     *)
(* store between Close and New, and the driver, whose interval never       *)
(* elapses, receives the send of Close at once.                            *)
(***************************************************************************)
\* readHeaderFile and ExtractInvertedIndexHeaderFromByteArray
ExtractInvertedIndexHeaderFromFile(file) ==
    LET r == ReadAt(file, 0, HeaderSizeInBytes)
    IN  IF r.n < HeaderSizeInBytes
        THEN Fail(ErrOutOfBounds, NewInvertedIndexHeader(0, 0, IndexEntrySizeInBytes, 0))
        ELSE Ok(updateDerivedProps(
                 [Title |-> SubSeq(r.data, 1, 16),
                  BlockSize |-> FromBigEndian(SubSeq(r.data, 17, 20)),
                  MaxKeys |-> FromBigEndian(SubSeq(r.data, 21, 28)),
                  RedundantBlocks |-> FromBigEndian(SubSeq(r.data, 29, 30)),
                  MaxIndexKeyLen |-> FromBigEndian(SubSeq(r.data, 31, 34)),
                  ItemsPerIndexBlock |-> 0, NumberOfIndexBlocks |-> 0,
                  NetBlockSize |-> 0, ValuesStartPoint |-> 0]))

\* NewBufferPool for a data file that exists, with the header read from it
OpenedBufferPool(capacity, file, bufferSize, header) ==
    IF header.err # NoErr THEN Fail(header.err, <<>>)
    ELSE Ok([kvCapacity |-> SubUint64(capacity,
                                  getIndexCapacity(header.val.NumberOfIndexBlocks, capacity)),
             indexCapacity |-> getIndexCapacity(header.val.NumberOfIndexBlocks, capacity),
             bufferSize |-> bufferSize,
             keyValuesStartPoint |-> header.val.ValuesStartPoint,
             maxKeys |-> header.val.MaxKeys,
             redundantBlocks |-> header.val.RedundantBlocks,
             kvBuffers |-> <<>>,
             indexBuffers |-> EmptyMap,
             File |-> file,
             FileSize |-> Len(file)])

OpenBufferPool(capacity, file, bufferSize) ==
    OpenedBufferPool(capacity, file, bufferSize, ExtractDbFileHeaderFromFile(file))

\* NewInvertedIndex for an index file that exists, with the header read from it
OpenedInvertedIndex(file, header) ==
    IF header.err # NoErr THEN Fail(header.err, <<>>)
    ELSE Ok([File |-> file,
             MaxIndexKeyLen |-> header.val.MaxIndexKeyLen,
             ValuesStartPoint |-> header.val.ValuesStartPoint,
             FileSize |-> Len(file),
             header |-> header.val])

OpenInvertedIndex(file) ==
    OpenedInvertedIndex(file, ExtractInvertedIndexHeaderFromFile(file))

\* New on the folder of the closed store s: the pool opened the data file
\* (bufferPool), its header was read again (header), the index file was opened
\* (searchIndex)
StoreOpened(s, bufferPool, header, searchIndex) ==
    IF bufferPool.err # NoErr THEN [s |-> s, err |-> bufferPool.err]
    ELSE IF header.err # NoErr THEN [s |-> s, err |-> header.err]
    ELSE IF searchIndex.err # NoErr THEN [s |-> s, err |-> searchIndex.err]
    ELSE [s |-> [bufferPool |-> bufferPool.val,
                 header |-> header.val,
                 searchIndex |-> searchIndex.val,
                 isClosed |-> FALSE,
                 tmpFile |-> s.tmpFile],
          err |-> NoErr]

\* New where os.Getpagesize() is pageSize: the size of the pool's buffers
StoreOpenOn(s, poolCapacity, pageSize) ==
    StoreOpened(s, OpenBufferPool(poolCapacity, s.bufferPool.File, pageSize),
                ExtractDbFileHeaderFromFile(s.bufferPool.File),
                OpenInvertedIndex(s.searchIndex.File))

StoreOpen(s, poolCapacity) == StoreOpenOn(s, poolCapacity, PageSize)

CloseReturned(r) ==
    /\ store' = r.s
    /\ Returned(Call("Close", <<>>, <<>>, NoTtl, r.err))
    /\ UNCHANGED <<now, ref, nsets>>

Close == CloseReturned(StoreClose(store))

NewReturned(r) ==
    /\ store' = r.s
    /\ Returned(Call("New", <<>>, <<>>, NoTtl, r.err))
    /\ UNCHANGED <<now, ref, nsets>>

New ==
    /\ store.isClosed
    /\ NewReturned(StoreOpen(store, PoolCapacity))

\* calls without ttl on a clock that stands still, Close, and New on the same
\* folder
ReopenNext ==
    \/ \E k \in Keys, v \in NonEmptyValues :
           ~store.isClosed /\ nsets < MaxSets /\ Set(k, v, NoTtl)
    \/ \E k \in Keys : ~store.isClosed /\ Get(k)
    \/ \E k \in Keys : ~store.isClosed /\ Delete(k)
    \/ ~store.isClosed /\ Compact
    \/ Close
    \/ New

ReopenSpec == Init /\ [][ReopenNext]_vars

\* the block sizes a data file made with PageSize is opened with again
BlockSizes == {PageSize, 2 * PageSize}

NewOn(pageSize) ==
    /\ store.isClosed
    /\ NewReturned(StoreOpenOn(store, PoolCapacity, pageSize))

\* calls without ttl, Close, and New on the same folder with the block size the
\* file was made with or with another one
BlockSizeNext ==
    \/ \E k \in Keys, v \in NonEmptyValues :
           ~store.isClosed /\ nsets < MaxSets /\ Set(k, v, NoTtl)
    \/ \E k \in Keys : ~store.isClosed /\ Get(k)
    \/ \E k \in Keys : ~store.isClosed /\ Delete(k)
    \/ ~store.isClosed /\ Compact
    \/ ~store.isClosed /\ Clear
    \/ Close
    \/ \E pageSize \in BlockSizes : NewOn(pageSize)

BlockSizeSpec == Init /\ [][BlockSizeNext]_vars

(***************************************************************************)
(* A store opened with search disabled.  It has no index.iscdb and its     *)
(* searchIndex is nil: Set, Delete, Clear and Compact leave out their call *)
(* on the search index, and Search refuses.  An operation without its call *)
(* on the search index is the operation run with an empty index whose      *)
(* state and answer are dropped.                                           *)
(***************************************************************************)
ErrCapabilityDisabled == "CapabilityDisabled"

\* the nil *InvertedIndex
NoSearchIndex == [nil |-> TRUE]

IsSearchEnabled(s) == s.searchIndex # NoSearchIndex

ScratchIndex == NewInvertedIndex(MaxIndexKeyLen, MaxKeys, DefaultRedundantBlocks)

WithScratchIndex(s) == [s EXCEPT !.searchIndex = ScratchIndex]

\* the result r of an operation, with the search index nil again
SearchIndexDropped(r) == [r EXCEPT !.s = [r.s EXCEPT !.searchIndex = NoSearchIndex]]

\* New with search disabled, on an empty folder
NewStoreSearchDisabled(maxKeys, redundantBlocks, poolCapacity) ==
    [NewStore(maxKeys, redundantBlocks, poolCapacity, MaxIndexKeyLen)
        EXCEPT !.searchIndex = NoSearchIndex]

SetIfSearchEnabled(s, k, v, ttl, t) ==
    IF IsSearchEnabled(s) THEN StoreSet(s, k, v, ttl, t)
    ELSE SearchIndexDropped(StoreSet(WithScratchIndex(s), k, v, ttl, t))

DeleteIfSearchEnabled(s, k) ==
    IF IsSearchEnabled(s) THEN StoreDelete(s, k)
    ELSE SearchIndexDropped(StoreDelete(WithScratchIndex(s), k))

ClearIfSearchEnabled(s) ==
    IF IsSearchEnabled(s) THEN StoreClear(s)
    ELSE SearchIndexDropped(StoreClear(WithScratchIndex(s)))

CompactIfSearchEnabled(s, t) ==
    IF IsSearchEnabled(s) THEN StoreCompact(s, t)
    ELSE SearchIndexDropped(StoreCompact(WithScratchIndex(s), t))

\* a Search that does not look whether there is a search index
SearchUnguarded(s, term, skip, limit, t) ==
    IF IsSearchEnabled(s) THEN StoreSearch(s, term, skip, limit, t)
    ELSE SearchIndexDropped(StoreSearch(WithScratchIndex(s), term, skip, limit, t))

SearchIfEnabled(s, term, skip, limit, t) ==
    IF IsSearchEnabled(s) THEN StoreSearch(s, term, skip, limit, t)
    ELSE [s |-> s, err |-> ErrCapabilityDisabled, val |-> <<>>]

SearchDisabledInit ==
    /\ store = NewStoreSearchDisabled(MaxKeys, DefaultRedundantBlocks, PoolCapacity)
    /\ now = 1
    /\ last = NoCall
    /\ ref = [k \in AllKeys |-> NoRef]
    /\ nsets = 0
    /\ ConcIdle

SearchDisabledNext ==
    \/ \E k \in Keys, v \in NonEmptyValues :
           nsets < MaxSets /\ SetReturned(k, v, NoTtl, SetIfSearchEnabled(store, k, v, NoTtl, now))
    \/ \E k \in Keys : Get(k)
    \/ \E k \in Keys : DeleteReturned(k, DeleteIfSearchEnabled(store, k))
    \/ ClearReturned(ClearIfSearchEnabled(store))
    \/ CompactReturned(CompactIfSearchEnabled(store, now))
    \/ \E term \in SearchTerms, skip \in Skips, limit \in Limits :
           SearchReturned(term, skip, limit, SearchIfEnabled(store, term, skip, limit, now))

SearchDisabledSpec == SearchDisabledInit /\ [][SearchDisabledNext]_vars

(***************************************************************************)
(* What a caller sees of the store                                         *)
(***************************************************************************)
\* what Get returned: the error, whether there is a value, the value
GetAnswer(r) == <<r.err, r.found, r.val>>

\* what Search returned: the error and the pairs
SearchAnswer(r) == <<r.err, r.val>>

\* the keys of the pairs Search returned
RetKeys(ret) == {ret[i].K : i \in 1..Len(ret)}

IsPrefix(p, k) == Len(p) <= Len(k) /\ SubSeq(k, 1, Len(p)) = p

(***************************************************************************)
(* Claims                                                                  *)
(***************************************************************************)
\* C1: a Get of k right after a successful Set(k, v) without ttl returns exactly
\* v, the empty value included
C1_GetAfterSet ==
    [][(/\ last.op = "Set" /\ last.err = NoErr /\ last.ttl = NoTtl
        /\ last'.op = "Get" /\ last'.k = last.k)
       => (last'.err = NoErr /\ last'.found /\ last'.ret = last.v)]_vars

\* C2: after two successful Sets of k with no Delete(k) and no Clear since the
\* first, and whatever was called on other keys, Get(k) returns the value of the
\* later Set
C2_LastSetWins ==
    (/\ last.op = "Get"
     /\ ref[last.k].st = "set" /\ ref[last.k].n = 2 /\ ref[last.k].expiry = 0)
    => (last.err = NoErr /\ last.found /\ last.ret = ref[last.k].v)

\* C3: after a successful Delete(k), and until the next successful Set of k,
\* Get(k) returns no value, whatever was called before the Delete
C3_DeletedStaysDeleted ==
    (last.op = "Get" /\ ref[last.k].st = "deleted") => ~last.found

\* the threads, and the driver, that are executing the body of an operation
Bodies ==
    {t \in Threads : pc[t] \in {"body", "sent"}}
        \cup (IF driver = "body" THEN {Driver} ELSE {})

\* C4: at most one of the threads and the driver is executing the body of an
\* operation, and whoever does holds the mutex
C4_OneBodyAtATime ==
    /\ Cardinality(Bodies) <= 1
    /\ \A w \in Bodies : mu = w

\* C4: a thread is in its body while another thread and the driver, which took
\* a tick, wait for the mutex
C4_Witness ==
    /\ pc["t1"] = "body"
    /\ pc["t2"] = "waiting"
    /\ driver = "ticked"

\* C5: every call returns what the serial run of the calls, in the order in
\* which they acquired the mutex, returns for it, and whenever no body is
\* running the store is the store of the serial run; the driver's Compact
\* counts as a call of Compact
C5_SerialInLockOrder ==
    /\ last = want
    /\ Bodies = {} => store = seq

\* C5: the driver compacted, a Set of one thread returned and a Get of the
\* other then returned the value
C5_Witness ==
    /\ ticks = 1
    /\ driver = "select"
    /\ Bodies = {}
    /\ ncalls >= 2
    /\ last.op = "Get"
    /\ last.found

\* C6: once Close has returned the driver has received the shutdown signal, so
\* it neither runs nor starts a Compact, and the data file does not change any
\* more
C6_NoCompactionAfterClose ==
    /\ [](store.isClosed => driver \in {"stopping", "stopped"})
    /\ [][store.isClosed => store'.bufferPool.File = store.bufferPool.File]_vars

\* C6: Close returned after the driver had compacted on a tick, and a thread
\* then called Compact on the closed store
C6_Witness ==
    /\ store.isClosed
    /\ ticks = 1
    /\ driver = "stopped"
    /\ last.op = "Compact"
    /\ last.err = ErrClosed

\* C7: a Close that has started is never stuck: as long as it has not returned,
\* the calling thread can take its next step or the driver, for which the send
\* on closeCh waits, can take one
C7_CloseNeverStuck ==
    \A t \in Threads :
        (pc[t] \in {"body", "sent"} /\ arg[t].op = "Close")
        => (ENABLED ThreadStep(t) \/ ENABLED DriverStep)

\* the record Set last wrote for a key has not expired at time t
LiveAt(r, t) == r.expiry = 0 \/ t <= r.expiry

\* C8: a key set with a ttl and not modified since is returned by Get up to its
\* expiry time; after it Get returns no value and Search, on every prefix of the
\* key, leaves the key out, with no Compact needed; a record without ttl never
\* expires
C8_TtlRespected ==
    /\ (last.op = "Get" /\ ref[last.k].st = "set" /\ LiveAt(ref[last.k], last.at))
       => (last.err = NoErr /\ last.found /\ last.ret = ref[last.k].v)
    /\ (last.op = "Get" /\ ref[last.k].st = "set" /\ ~LiveAt(ref[last.k], last.at))
       => ~last.found
    /\ last.op = "Search"
       => \A k \in Keys :
            (ref[k].st = "set" /\ ~LiveAt(ref[k], last.at) /\ IsPrefix(last.k, k))
            => k \notin RetKeys(last.ret)

\* Get answers the same on two stores
SameGet(s1, s2, k, t) == GetAnswer(StoreGet(s1, k, t)) = GetAnswer(StoreGet(s2, k, t))

\* Search answers the same on two stores
SameSearch(s1, s2, term, skip, limit, t) ==
    SearchAnswer(StoreSearch(s1, term, skip, limit, t))
        = SearchAnswer(StoreSearch(s2, term, skip, limit, t))

\* C9: with the clock fixed, Get of every key answers the same right after a
\* Compact as right before it
C9_CompactKeepsGet ==
    [][Compact => \A k \in Keys : SameGet(store, store', k, now)]_vars

\* C10: with the clock fixed, Search of every term, skip and limit answers the
\* same right after a Compact as right before it
C10_CompactKeepsSearch ==
    [][Compact => \A term \in SearchTerms, skip \in Skips, limit \in Limits :
                    SameSearch(store, store', term, skip, limit, now)]_vars

\* the pairs Search returned
Pairs(ret) == {ret[i] : i \in 1..Len(ret)}

\* the prefixes of k the inverted index lists k under
IndexedPrefixes(k) == {SubSeq(k, 1, L) : L \in 1..Min(Len(k), MaxIndexKeyLen)}

\* C11: in every state, for every key that was set, not deleted since and has
\* not expired, and every prefix of it of at most MaxIndexKeyLen bytes,
\* Search(prefix, 0, 0) contains the key with its current value
C11_SearchFindsLiveKeys ==
    \A k \in Keys :
        (ref[k].st = "set" /\ LiveAt(ref[k], now))
        => \A p \in IndexedPrefixes(k) :
             [K |-> k, V |-> ref[k].v] \in Pairs(StoreSearch(store, p, 0, 0, now).val)

\* C12: while a key is deleted (its Delete succeeded and it was not set since),
\* no Search returns a pair with that key, and every pair a Search returns is a
\* live key with its current value, Compact calls in between included
C12_SearchSkipsDeleted ==
    (last.op = "Search" /\ \E d \in Keys : ref[d].st = "deleted")
    => /\ \A d \in Keys : ref[d].st = "deleted" => d \notin RetKeys(last.ret)
       /\ \A p \in Pairs(last.ret) :
            \E k \in Keys : /\ ref[k].st = "set"
                            /\ LiveAt(ref[k], last.at)
                            /\ p = [K |-> k, V |-> ref[k].v]

\* the slice of list l that starts at position skip (0-based) and has at most
\* limit elements, all the remaining ones when limit is 0
Page(l, skip, limit) ==
    IF skip >= Len(l) THEN <<>>
    ELSE SubSeq(l, skip + 1, IF limit = 0 THEN Len(l) ELSE Min(Len(l), skip + limit))

\* C13: at one clock value, Search(term, skip, limit) is the slice of
\* Search(term, 0, 0) that starts at position skip and has min(limit, len - skip)
\* elements, or runs to the end when limit is 0, also when keys of the prefix
\* list were deleted
C13_SearchPagination ==
    \A term \in SearchTerms, skip \in Skips, limit \in Limits :
        StoreSearch(store, term, 0, 0, now).err = NoErr
        => SearchAnswer(StoreSearch(store, term, skip, limit, now))
             = <<NoErr, Page(StoreSearch(store, term, 0, 0, now).val, skip, limit)>>

\* C14: with the clock fixed, Get of every key answers on the store opened
\* again on the folder what it answered right before Close
C14_ReopenKeepsGet ==
    [][(~store.isClosed /\ last'.op = "Close" /\ last'.err = NoErr)
       => \A k \in Keys :
            GetAnswer(StoreGet(StoreOpen(store', PoolCapacity).s, k, now))
                = GetAnswer(StoreGet(store, k, now))]_vars

\* the index slots of the data file of store s: the bytes between the header
\* and the first record
IndexSlots(s) == SubSeq(s.bufferPool.File, HeaderSizeInBytes + 1, s.header.ValuesStartPoint)

SlotAddrs(s) ==
    {FromBigEndian(SubSeq(s.bufferPool.File, o + 1, o + IndexEntrySizeInBytes)) :
        o \in {HeaderSizeInBytes + IndexEntrySizeInBytes * i :
                  i \in 0..((s.header.ValuesStartPoint - HeaderSizeInBytes)
                                \div IndexEntrySizeInBytes) - 1}} \ {0}

\* the records an index slot points to that are tombstoned or have expired at
\* clock value t
DeadAddrs(s, t) ==
    {a \in SlotAddrs(s) :
        /\ ReadKvForSearch(s.bufferPool, a).err = NoErr
        /\ \/ ReadKvForSearch(s.bufferPool, a).val.IsDeleted
           \/ IsExpired(ReadKvForSearch(s.bufferPool, a).val.Expiry, t)}

\* the total size of the records at the addresses
RECURSIVE SizeOfRecords(_, _)
SizeOfRecords(s, addrs) ==
    IF addrs = {} THEN 0
    ELSE LET a == CHOOSE x \in addrs : TRUE
         IN  ReadKvForSearch(s.bufferPool, a).val.Size + SizeOfRecords(s, addrs \ {a})

\* C16: Compact never makes the data file larger; a Compact that finds a
\* tombstoned or expired record behind an index slot makes the file smaller, by
\* at least the total size of those records
C16_CompactShrinksFile ==
    [][last'.op = "Compact"
       => /\ Len(store'.bufferPool.File) <= Len(store.bufferPool.File)
          /\ (last'.err = NoErr /\ DeadAddrs(store, now) # {})
             => /\ Len(store'.bufferPool.File) < Len(store.bufferPool.File)
                /\ Len(store.bufferPool.File) - Len(store'.bufferPool.File)
                     >= SizeOfRecords(store, DeadAddrs(store, now))]_vars

\* the offset of the slot of key k in index block n of the data file of store s
ProbeSlot(s, k, n) == GetIndexOffsetInNthBlock(s.header, GetIndexOffset(s.header, k), n).val

\* the address in the slot at offset o
SlotAddr(s, o) == FromBigEndian(SubSeq(s.bufferPool.File, o + 1, o + IndexEntrySizeInBytes))

\* the index blocks whose slot for k is empty or points to a record with key k
FreeBlocks(s, k) ==
    {n \in 0..(s.header.NumberOfIndexBlocks - 1) :
        \/ SlotAddr(s, ProbeSlot(s, k, n)) = 0
        \/ /\ ReadKvForSearch(s.bufferPool, SlotAddr(s, ProbeSlot(s, k, n))).err = NoErr
           /\ ReadKvForSearch(s.bufferPool, SlotAddr(s, ProbeSlot(s, k, n))).val.Key = k}

FirstFreeBlock(s, k) == CHOOSE n \in FreeBlocks(s, k) : \A m \in FreeBlocks(s, k) : n <= m

\* the index slots of s2 are those of s1 but for the slot at offset o
OnlySlotChanged(s1, s2, o) ==
    \A i \in 1..Len(IndexSlots(s1)) :
        (i <= o - HeaderSizeInBytes \/ i > o - HeaderSizeInBytes + IndexEntrySizeInBytes)
        => IndexSlots(s2)[i] = IndexSlots(s1)[i]

\* C17: Set(k, v) fails with CollisionSaturation exactly when the slot of k in
\* every index block is taken by a record of another key; otherwise it succeeds
\* and puts the new record of k in the first block whose slot is empty or holds
\* a record of k, leaving the other slots alone
C17_SetProbesInOrder ==
    [][last'.op = "Set"
       => /\ (last'.err = ErrCollisionSaturation) <=> (FreeBlocks(store, last'.k) = {})
          /\ FreeBlocks(store, last'.k) # {}
             => /\ last'.err = NoErr
                /\ OnlySlotChanged(store, store',
                                   ProbeSlot(store, last'.k, FirstFreeBlock(store, last'.k)))
                /\ ReadKvForSearch(
                       store'.bufferPool,
                       SlotAddr(store', ProbeSlot(store, last'.k,
                                                  FirstFreeBlock(store, last'.k)))).val
                     = NewKeyValueEntry(last'.k, last'.v, 0)]_vars

\* C18: a Set, Delete, Clear or Compact that returns an error leaves the pool's
\* FileSize and buffers as they were, and Get of every key and Search of every
\* term answer after it what they answered before it
C18_FailedCallChangesNothing ==
    [][(last'.op \in {"Set", "Delete", "Clear", "Compact"} /\ last'.err # NoErr)
       => /\ store'.bufferPool.FileSize = store.bufferPool.FileSize
          /\ store'.bufferPool.kvBuffers = store.bufferPool.kvBuffers
          /\ store'.bufferPool.indexBuffers = store.bufferPool.indexBuffers
          /\ \A k \in ProbeKeys : SameGet(store, store', k, now)
          /\ \A term \in SearchTerms, skip \in Skips, limit \in Limits :
               SameSearch(store, store', term, skip, limit, now)]_vars

\* C19: a Close on a store that is already closed returns nil and changes
\* nothing: the store with its pool and search index, the shutdown channel and
\* the driver stay as they are; and once the store is closed nothing is sent on
\* the channel again.  The second Close may have been called while the first
\* was running
C19_CloseIdempotent ==
    [][/\ \A t \in Threads :
            (pc[t] = "body" /\ arg[t].op = "Close" /\ store.isClosed /\ pc'[t] = "idle")
            => /\ last'.op = "Close"
               /\ last'.err = NoErr
               /\ store' = store
               /\ closeCh' = closeCh
               /\ driver' = driver
       /\ store.isClosed
          => /\ closeCh' = "closed"
             /\ driver' = driver \/ (driver = "stopping" /\ driver' = "stopped")]_vars

\* C19: both threads called Close and both calls have returned nil
C19_Witness ==
    /\ store.isClosed
    /\ arg["t1"].op = "Close"
    /\ arg["t2"].op = "Close"
    /\ pc["t1"] = "idle"
    /\ pc["t2"] = "idle"
    /\ last.op = "Close"
    /\ last.err = NoErr

\* by the calls so far key k has no live record: it was never set, or its
\* latest Set was followed by a successful Delete of it or a successful Clear
Absent(k) == ref[k].st \in {"never", "deleted", "cleared"}

\* C20: for a key without live record Get returns no value and no error, and
\* Delete returns success and leaves the data file, index slots included, as it
\* is, and with it what Get of every key and Search of every term answer
C20_MissingKeyIsNoError ==
    [][/\ (last'.op = "Get" /\ Absent(last'.k))
          => (last'.err = NoErr /\ ~last'.found)
       /\ (last'.op = "Delete" /\ Absent(last'.k))
          => /\ last'.err = NoErr
             /\ store'.bufferPool.File = store.bufferPool.File
             /\ \A k \in Keys : SameGet(store, store', k, now)
             /\ \A term \in SearchTerms, skip \in Skips, limit \in Limits :
                  SameSearch(store, store', term, skip, limit, now)]_vars

C22_SearchReturnsPrefixed ==
    last.op = "Search" => \A p \in Pairs(last.ret) : IsPrefix(last.k, p.K)

\* C23: whatever block size an existing data file is opened with, the header
\* on disk stays the one the file was made with, and the store and its pool
\* work with the values of that header (Set, Get, Delete, Compact and Clear
\* included)
C23_HeaderOnDiskWins ==
    ~store.isClosed =>
        /\ SubSeq(store.bufferPool.File, 1, HeaderSizeInBytes)
               = DbFileHeaderAsBytes(NewDbFileHeader(MaxKeys, DefaultRedundantBlocks, PageSize))
        /\ store.header = ExtractDbFileHeaderFromFile(store.bufferPool.File).val
        /\ store.bufferPool.keyValuesStartPoint = store.header.ValuesStartPoint
        /\ store.bufferPool.maxKeys = store.header.MaxKeys
        /\ store.bufferPool.redundantBlocks = store.header.RedundantBlocks

\* the index blocks whose slot for k points to a record of k in the data file
\* that is neither tombstoned nor expired at clock value t
LiveBlocks(s, k, t) ==
    {n \in 0..(s.header.NumberOfIndexBlocks - 1) :
        /\ SlotAddr(s, ProbeSlot(s, k, n)) # 0
        /\ ReadKvForSearch(s.bufferPool, SlotAddr(s, ProbeSlot(s, k, n))).err = NoErr
        /\ ReadKvForSearch(s.bufferPool, SlotAddr(s, ProbeSlot(s, k, n))).val.Key = k
        /\ ~ReadKvForSearch(s.bufferPool, SlotAddr(s, ProbeSlot(s, k, n))).val.IsDeleted
        /\ ~IsExpired(ReadKvForSearch(s.bufferPool,
                                      SlotAddr(s, ProbeSlot(s, k, n))).val.Expiry, t)}

\* C24: in every state every key has at most one live entry: at most one of its
\* probe slots points to a record of that key that is neither tombstoned nor
\* expired
C24_OneLiveEntryPerKey ==
    \A k \in Keys : Cardinality(LiveBlocks(store, k, now)) <= 1

\* C25: a Set or a Delete of one key leaves the answer of Get for every other
\* key as it was, also when one key is a prefix of the other and both hash to
\* the same slot
C25_OtherKeysUntouched ==
    [][last'.op \in {"Set", "Delete"}
       => \A k \in Keys \ {last'.k} : SameGet(store, store', k, now)]_vars

\* the size, the key size, the key and the offset of the is_deleted byte of the
\* record at address a of a data file
RecordSize(file, a) == FromBigEndian(SubSeq(file, a + 1, a + 4))
RecordKeySize(file, a) == FromBigEndian(SubSeq(file, a + 5, a + 8))
RecordKey(file, a) ==
    SubSeq(file, a + OffsetForKeyInKVArray + 1,
           a + OffsetForKeyInKVArray + RecordKeySize(file, a))
IsDeletedOffset(file, a) == a + OffsetForKeyInKVArray + RecordKeySize(file, a)

\* the addresses append returned since the last Compact or Clear: the records
\* lie one after the other from address a to the end of the file
RECURSIVE RecordAddrs(_, _)
RecordAddrs(file, a) ==
    IF a + KeyValueMinSizeInBytes > Len(file) \/ RecordSize(file, a) < KeyValueMinSizeInBytes
    THEN {}
    ELSE {a} \cup RecordAddrs(file, a + RecordSize(file, a))

\* C26: Set, Get, Delete and Search leave every byte of every appended record
\* in the data file as it is, but for the is_deleted byte, which only Delete(k)
\* sets to 1 and only in a record whose key is k
C26_AppendedRecordsKeepTheirBytes ==
    [][last'.op \in {"Set", "Get", "Delete", "Search"}
       => \A a \in RecordAddrs(store.bufferPool.File, store.header.ValuesStartPoint) :
            \A i \in a..(a + RecordSize(store.bufferPool.File, a) - 1) :
                \/ store'.bufferPool.File[i + 1] = store.bufferPool.File[i + 1]
                \/ /\ i = IsDeletedOffset(store.bufferPool.File, a)
                   /\ store'.bufferPool.File[i + 1] = 1
                   /\ last'.op = "Delete"
                   /\ RecordKey(store.bufferPool.File, a) = last'.k]_vars

\* no kv buffer of pool p contains the address a
KvMiss(p, a) == \A i \in 1..Len(p.kvBuffers) : ~BufferContains(p.kvBuffers[i], a)

\* the kv buffers of pool p after a miss at address a when the pool is at
\* capacity: the oldest is gone and the buffer read at a is the newest
OldestEvicted(p, a) ==
    Append(Tail(p.kvBuffers),
           NewBuffer(a, SubSeq(p.File, a + 1, Min(Len(p.File), a + p.bufferSize)),
                     p.bufferSize))

\* C27: whatever the capacity of the pool, there are never more kv buffers than
\* kvCapacity, and a miss of GetValue or AddrBelongsToKey in a pool at capacity
\* returns without error, having dropped the oldest kv buffer and no other and
\* added the buffer it read
C27_KvBuffersBounded ==
    /\ Len(store.bufferPool.kvBuffers) <= store.bufferPool.kvCapacity
    /\ \A a \in RecordAddrs(store.bufferPool.File, store.header.ValuesStartPoint),
          k \in Keys :
          (/\ KvMiss(store.bufferPool, a)
           /\ Len(store.bufferPool.kvBuffers) >= store.bufferPool.kvCapacity)
          => /\ GetValue(store.bufferPool, a, k, now).err = NoErr
             /\ GetValue(store.bufferPool, a, k, now).bp.kvBuffers
                    = OldestEvicted(store.bufferPool, a)
             /\ AddrBelongsToKey(store.bufferPool, a, k).err = NoErr
             /\ AddrBelongsToKey(store.bufferPool, a, k).bp.kvBuffers
                    = OldestEvicted(store.bufferPool, a)

\* the offsets of the index slots of the data file of store s
IndexSlotOffsets(s) ==
    {HeaderSizeInBytes + IndexEntrySizeInBytes * i :
        i \in 0..((s.header.ValuesStartPoint - HeaderSizeInBytes) \div IndexEntrySizeInBytes - 1)}

\* the left offsets of the index blocks that pool p has cached
CachedBlocks(p) == DOMAIN p.indexBuffers

BiggestLeftOffset(p) == CHOOSE o \in CachedBlocks(p) : \A o2 \in CachedBlocks(p) : o2 <= o

\* C28: there are never more cached index blocks than indexCapacity; a ReadIndex
\* that misses in a pool at capacity drops the cached block with the largest
\* left offset and no other and caches the block it read; a ReadIndex that hits
\* and an UpdateIndex leave the set of cached blocks as it is
C28_IndexBuffersBounded ==
    /\ Cardinality(CachedBlocks(store.bufferPool)) <= store.bufferPool.indexCapacity
    /\ \A o \in IndexSlotOffsets(store) :
          /\ ReadIndex(store.bufferPool, o).err = NoErr
          /\ CachedBlocks(ReadIndex(store.bufferPool, o).bp)
               = IF getBlockLeftOffset(store.bufferPool, o, HeaderSizeInBytes)
                       \in CachedBlocks(store.bufferPool)
                 THEN CachedBlocks(store.bufferPool)
                 ELSE IF Cardinality(CachedBlocks(store.bufferPool))
                            >= store.bufferPool.indexCapacity
                 THEN (CachedBlocks(store.bufferPool) \ {BiggestLeftOffset(store.bufferPool)})
                          \cup {getBlockLeftOffset(store.bufferPool, o, HeaderSizeInBytes)}
                 ELSE CachedBlocks(store.bufferPool)
                          \cup {getBlockLeftOffset(store.bufferPool, o, HeaderSizeInBytes)}
          /\ \A addr \in {0, store.header.ValuesStartPoint} :
                /\ UpdateIndex(store.bufferPool, o, Uint64ToByteArray(addr)).err = NoErr
                /\ CachedBlocks(UpdateIndex(store.bufferPool, o, Uint64ToByteArray(addr)).bp)
                     = CachedBlocks(store.bufferPool)

\* C28: a call has filled the index buffers of a pool with room for two of its
\* three index blocks, so that a ReadIndex in the third block misses at capacity
C28_Witness ==
    /\ last.op \in {"Set", "Get", "Delete"}
    /\ store.bufferPool.indexCapacity = 2
    /\ Cardinality(CachedBlocks(store.bufferPool)) = 2
    /\ \E o \in IndexSlotOffsets(store) :
          getBlockLeftOffset(store.bufferPool, o, HeaderSizeInBytes)
              \notin CachedBlocks(store.bufferPool)

\* C29: for every total pool capacity C, zero and one included, and every
\* number of index blocks, New gives the pool index_capacity =
\* clamp(floor(2C/3), 1, num_blocks) and kv_capacity = C - index_capacity, so
\* that the two add up to C and kv_capacity did not wrap around below zero.
C29_CapacitySplit ==
    last.op = "New" =>
        LET C == last.v[1]
            p == store.bufferPool
            numBlocks == store.header.NumberOfIndexBlocks
            clamped == IF (2 * C) \div 3 < 1 THEN 1
                       ELSE IF (2 * C) \div 3 > numBlocks THEN numBlocks
                       ELSE (2 * C) \div 3
        IN  /\ numBlocks >= 1
            /\ p.indexCapacity = clamped
            /\ p.kvCapacity = C - p.indexCapacity
            /\ p.indexCapacity + p.kvCapacity = C
            /\ p.kvCapacity >= 0
            /\ p.kvCapacity < Huge

\* the byte of file at address a, -1 past the end of the file
FileByte(file, a) == IF a < Len(file) THEN file[a + 1] ELSE -1

\* the addresses that some kv buffer of pool p holds
HeldAddrs(p) ==
    UNION {p.kvBuffers[i].LeftOffset..(p.kvBuffers[i].RightOffset - 1) :
              i \in 1..Len(p.kvBuffers)}

\* the byte at address a in the newest kv buffer of pool p that holds a
NewestByte(p, a) ==
    LET b == p.kvBuffers[NewestBuffer(p.kvBuffers, LAMBDA x : BufferContains(x, a))]
    IN  b.Data[a - b.LeftOffset + 1]

\* the index slots of the block at left offset o of pool p: those of the index
\* band that lie in the block
SlotsOfBlock(p, o) ==
    {HeaderSizeInBytes + IndexEntrySizeInBytes * i :
        i \in 0..((p.keyValuesStartPoint - HeaderSizeInBytes) \div IndexEntrySizeInBytes - 1)}
      \cap o..(o + p.bufferSize - 1)

\* the 8 bytes of the slot at offset a in the file, none past the end of the file
FileSlot(file, a) ==
    IF a + IndexEntrySizeInBytes <= Len(file)
    THEN SubSeq(file, a + 1, a + IndexEntrySizeInBytes) ELSE <<>>

\* the 8 bytes of the slot at offset a in the cached index block at o
CachedSlot(p, o, a) ==
    LET b == p.indexBuffers[o]
    IN  SubSeq(b.Data, a - b.LeftOffset + 1, a - b.LeftOffset + IndexEntrySizeInBytes)

\* C30: between operations the newest kv buffer that holds an address has at
\* that address the byte the data file has there, and every index slot of a
\* cached index block has in the buffer the 8 bytes it has in the file.
C30_NewestViewAgreesWithFile ==
    LET p == store.bufferPool
    IN  /\ \A a \in HeldAddrs(p) : NewestByte(p, a) = FileByte(p.File, a)
        /\ \A o \in CachedBlocks(p) : \A a \in SlotsOfBlock(p, o) :
              /\ p.indexBuffers[o].LeftOffset = o
              /\ a + IndexEntrySizeInBytes <= p.indexBuffers[o].RightOffset
              /\ CachedSlot(p, o, a) = FileSlot(p.File, a)

\* pool p with nothing cached: every read is served from the file
Uncached(p) == [p EXCEPT !.kvBuffers = <<>>, !.indexBuffers = EmptyMap]

\* what the pool's three kv queries answer for key k at address a
KvAnswers(p, a, k, t) ==
    <<GetValue(p, a, k, t).err, GetValue(p, a, k, t).found, GetValue(p, a, k, t).val,
      AddrBelongsToKey(p, a, k).err, AddrBelongsToKey(p, a, k).val,
      TryDeleteKvEntry(p, a, k).err, TryDeleteKvEntry(p, a, k).val>>

\* what Get answers when every read of the pool is served from the file: the
\* loop of Get over the index blocks, on a pool that has nothing cached at
\* each read
RECURSIVE GetFromFile(_, _, _, _)
GetFromFile(s, k, idxBlock, t) ==
    IF idxBlock >= s.header.NumberOfIndexBlocks THEN <<NoErr, FALSE, <<>>>>
    ELSE LET off == GetIndexOffsetInNthBlock(s.header, GetIndexOffset(s.header, k), idxBlock)
             slot == ReadIndex(Uncached(s.bufferPool), off.val)
             value == GetValue(Uncached(s.bufferPool), Uint64FromByteArray(slot.val).val, k, t)
         IN  IF off.err # NoErr THEN <<off.err, FALSE, <<>>>>
             ELSE IF slot.err # NoErr THEN <<slot.err, FALSE, <<>>>>
             ELSE IF slot.val = Zeros(IndexEntrySizeInBytes)
             THEN GetFromFile(s, k, idxBlock + 1, t)
             ELSE IF value.err # NoErr THEN <<value.err, FALSE, <<>>>>
             ELSE IF value.found THEN <<NoErr, TRUE, value.val.Value>>
             ELSE GetFromFile(s, k, idxBlock + 1, t)

\* C31: the cache is transparent: in every state that Set, Get, Delete and
\* Compact reach, for every pool capacity, GetValue, AddrBelongsToKey and
\* TryDeleteKvEntry answer for every record address and key what they answer
\* when nothing is cached, and so does Get for every key.
C31_CacheTransparent ==
    LET p == store.bufferPool
    IN  /\ \A a \in RecordAddrs(p.File, p.keyValuesStartPoint) : \A k \in Keys :
              KvAnswers(p, a, k, now) = KvAnswers(Uncached(p), a, k, now)
        /\ \A k \in Keys : GetAnswer(StoreGet(store, k, now)) = GetFromFile(store, k, 0, now)

\* the byte strings Append is tried with
AppendData == {<<1>>, <<1, 2, 3>>}

\* what Append does to the file of pool p: it returns the old file size, the
\* data lies there afterwards, the bytes before it are as they were and the
\* file size has grown by the length of the data
AppendsToFile(p, data) ==
    LET r == PoolAppend(p, data)
    IN  /\ r.err = NoErr
        /\ r.val = p.FileSize
        /\ r.bp.FileSize = r.val + Len(data)
        /\ Len(r.bp.File) = r.val + Len(data)
        /\ SubSeq(r.bp.File, r.val + 1, r.val + Len(data)) = data
        /\ SubSeq(r.bp.File, 1, r.val) = SubSeq(p.File, 1, r.val)
        /\ Len(r.bp.kvBuffers) = Len(p.kvBuffers)
        /\ r.bp.indexBuffers = p.indexBuffers

\* kv buffer i of pool p takes an append at the file size: it ends there and
\* holds fewer bytes than its capacity
TakesAppend(p, i) ==
    /\ p.kvBuffers[i].RightOffset = p.FileSize
    /\ Len(p.kvBuffers[i].Data) < p.kvBuffers[i].capacity

\* kv buffer i of pool p after Append(data) is buffer i with the data added
Extended(p, data, i) ==
    /\ PoolAppend(p, data).bp.kvBuffers[i].Data = p.kvBuffers[i].Data \o data
    /\ PoolAppend(p, data).bp.kvBuffers[i].LeftOffset = p.kvBuffers[i].LeftOffset
    /\ PoolAppend(p, data).bp.kvBuffers[i].RightOffset = p.FileSize + Len(data)

\* C32 as claimed: append returns the old file size, writes the data there and
\* advances the file size; the data is added to the last kv buffer when that
\* buffer ends at the old file size and is below capacity, and otherwise no
\* buffer is changed.
C32_AppendIntoLastBuffer ==
    LET p == store.bufferPool
        n == Len(p.kvBuffers)
    IN  \A data \in AppendData :
          /\ AppendsToFile(p, data)
          /\ \A i \in 1..n :
                IF i = n /\ TakesAppend(p, i) THEN Extended(p, data, i)
                ELSE PoolAppend(p, data).bp.kvBuffers[i] = p.kvBuffers[i]

\* C32 as amended: the data is added to the newest of the kv buffers that end
\* at the old file size and are below capacity, whether or not it is the last
\* one, and no other buffer is changed.
C32_AppendIntoNewestFitting ==
    LET p == store.bufferPool
        n == Len(p.kvBuffers)
    IN  \A data \in AppendData :
          /\ AppendsToFile(p, data)
          /\ \A i \in 1..n :
                IF TakesAppend(p, i) /\ \A j \in (i + 1)..n : ~TakesAppend(p, j)
                THEN Extended(p, data, i)
                ELSE PoolAppend(p, data).bp.kvBuffers[i] = p.kvBuffers[i]

\* C32: a Set has appended its record to the older of two kv buffers, the one
\* that ended at the file size, and not to the last one
C32_Witness ==
    LET p == store.bufferPool
    IN  /\ last.op = "Set" /\ last.err = NoErr
        /\ Len(p.kvBuffers) = 2
        /\ p.kvBuffers[1].RightOffset = p.FileSize
        /\ Len(p.kvBuffers[1].Data) > p.kvBuffers[1].capacity
        /\ p.kvBuffers[2].RightOffset < p.FileSize

\* C33: on an open store the pool's file size is at least the start of the
\* values region and equals the length of the data file after every operation,
\* and no operation other than Clear and Compact makes it smaller.
C33_FileSizeGrows ==
    [][/\ ~store'.isClosed =>
            /\ store'.bufferPool.FileSize >= store'.bufferPool.keyValuesStartPoint
            /\ store'.bufferPool.FileSize = Len(store'.bufferPool.File)
       /\ (~store.isClosed /\ ~store'.isClosed /\ last'.op \notin {"Clear", "Compact"})
             => store'.bufferPool.FileSize >= store.bufferPool.FileSize]_vars

\* the addresses UpdateIndex and ReadIndex are tried with: from below the
\* header's end to beyond the start of the values
IndexAddrs(p) == (HeaderSizeInBytes - 2)..(p.keyValuesStartPoint + 1)

\* the byte strings UpdateIndex is tried with
IndexData == {Uint64ToByteArray(164), <<1, 2, 3>>}

\* the span of size bytes at addr lies in the index band of pool p
InIndexBand(p, addr, size) ==
    HeaderSizeInBytes <= addr /\ addr + size <= p.keyValuesStartPoint

\* C34: UpdateIndex(addr, data) and ReadIndex(addr) succeed exactly when the
\* span lies between the end of the header and the start of the values;
\* otherwise they fail with OutOfBounds and change neither the file nor a
\* buffer; after a successful UpdateIndex of 8 bytes ReadIndex returns them,
\* from the cached block and from the file.
C34_IndexBounds ==
    LET p == store.bufferPool
    IN  \A addr \in IndexAddrs(p) :
          /\ (ReadIndex(p, addr).err = NoErr) <=> InIndexBand(p, addr, IndexEntrySizeInBytes)
          /\ ~InIndexBand(p, addr, IndexEntrySizeInBytes)
                => (ReadIndex(p, addr).err = ErrOutOfBounds /\ ReadIndex(p, addr).bp = p)
          /\ \A data \in IndexData :
                /\ (UpdateIndex(p, addr, data).err = NoErr) <=> InIndexBand(p, addr, Len(data))
                /\ ~InIndexBand(p, addr, Len(data))
                      => (UpdateIndex(p, addr, data).err = ErrOutOfBounds
                            /\ UpdateIndex(p, addr, data).bp = p)
                /\ (InIndexBand(p, addr, Len(data)) /\ Len(data) = IndexEntrySizeInBytes)
                      => /\ ReadIndex(UpdateIndex(p, addr, data).bp, addr).val = data
                         /\ ReadIndex(Uncached(UpdateIndex(p, addr, data).bp), addr).val = data

\* the keys Add is tried with, one of them in no list
AddKeys == ListKeys \cup {KeyB}

\* C35: on the search index that any sequence of Set, Clear and
\* Compact leaves, the list walk of every Search and of every Add ends: it
\* comes back to the root or reads a next offset of zero before it has
\* visited more nodes than the file holds, so it visits no node twice.
C35_WalksTerminate ==
    /\ \A term \in ListTerms \cup {KeyAAB} : \A skip \in Skips : \A limit \in Limits :
          IndexSearch(store.searchIndex, term, skip, limit, now).err # Diverges
    /\ \A k \in AddKeys :
          IndexAdd(store.searchIndex, k, store.bufferPool.FileSize, 0).err # Diverges

\* C35: a Search has walked a list of three nodes and returned all of them
C35_Witness ==
    /\ last.op = "Search" /\ last.err = NoErr /\ last.k = KeyA
    /\ Len(IndexSearch(store.searchIndex, KeyA, 0, 0, now).val) = 3

\* the bytes of the record at address a of the file
RecordBytes(file, a) == SubSeq(file, a + 1, a + RecordSize(file, a))

\* the records of store s that an index slot points to and that are neither
\* tombstoned nor expired at clock value t
SurvivingAddrs(s, t) == SlotAddrs(s) \ DeadAddrs(s, t)

\* C36: after a Compact that returned success every index slot whose record
\* was tombstoned or expired is zero, every other slot points to a record of
\* the new values region that is neither, the values region is exactly the
\* surviving records, one after the other from the start of the values to the
\* end of the file, no kv or index buffer is left and the pool's file size is
\* the length of the compacted file.
C36_CompactResult ==
    [][(last'.op = "Compact" /\ last'.err = NoErr)
       => LET p == store'.bufferPool
              records == RecordAddrs(p.File, p.keyValuesStartPoint)
          IN  /\ \A o \in IndexSlotOffsets(store) :
                    SlotAddr(store, o) \in DeadAddrs(store, now) => SlotAddr(store', o) = 0
              /\ SlotAddrs(store') \subseteq records
              /\ DeadAddrs(store', now) = {}
              /\ records \subseteq SlotAddrs(store')
              /\ {RecordBytes(p.File, a) : a \in records}
                    = {RecordBytes(store.bufferPool.File, a) : a \in SurvivingAddrs(store, now)}
              /\ Cardinality(records) = Cardinality(SurvivingAddrs(store, now))
              /\ p.keyValuesStartPoint + SizeOfRecords(store', records) = Len(p.File)
              /\ p.kvBuffers = <<>>
              /\ p.indexBuffers = EmptyMap
              /\ p.FileSize = Len(p.File)]_vars

\* the node at address a of the index file of idx
Node(idx, a) ==
    ExtractInvertedIndexEntryFromByteArray(readEntryBytes(idx.File, a).val, 0).val

\* the addresses of the nodes of an index file: they lie one after the other
\* from address a to the end of the file
RECURSIVE NodeAddrs(_, _)
NodeAddrs(file, a) ==
    IF a + InvertedIndexEntryMinSizeInBytes > Len(file)
          \/ FromBigEndian(SubSeq(file, a + 1, a + 4)) < InvertedIndexEntryMinSizeInBytes
    THEN {}
    ELSE {a} \cup NodeAddrs(file, a + FromBigEndian(SubSeq(file, a + 1, a + 4)))

AllNodes(idx) == NodeAddrs(idx.File, idx.ValuesStartPoint)

\* the non-zero addresses in the index slots of the index file of idx
RootSlots(idx) ==
    {FromBigEndian(SubSeq(idx.File, HeaderSizeInBytes + IndexEntrySizeInBytes * i + 1,
                          HeaderSizeInBytes + IndexEntrySizeInBytes * (i + 1))) :
        i \in 0..((idx.ValuesStartPoint - HeaderSizeInBytes) \div IndexEntrySizeInBytes - 1)}
      \ {0}

\* C37: in every state of the search index every non-zero index slot points
\* to a root node, the list of every prefix has exactly one root, and every
\* node is the previous node of its next node and the next node of its
\* previous node (a list of one node points to itself both ways).
C37_ListsWellFormed ==
    LET idx == store.searchIndex
    IN  /\ \A a \in RootSlots(idx) : a \in AllNodes(idx) /\ Node(idx, a).IsRoot
        /\ \A n \in AllNodes(idx) :
              /\ Cardinality({r \in AllNodes(idx) :
                                 Node(idx, r).IndexKey = Node(idx, n).IndexKey
                                    /\ Node(idx, r).IsRoot}) = 1
              /\ Node(idx, n).NextOffset \in AllNodes(idx)
              /\ Node(idx, n).PreviousOffset \in AllNodes(idx)
              /\ Node(idx, Node(idx, n).NextOffset).PreviousOffset = n
              /\ Node(idx, Node(idx, n).PreviousOffset).NextOffset = n

\* C37: the list of prefix "a" has three nodes and another list has one
C37_Witness ==
    LET idx == store.searchIndex
    IN  /\ last.op = "Set" /\ last.err = NoErr
        /\ Cardinality({n \in AllNodes(idx) : Node(idx, n).IndexKey = KeyA}) = 3
        /\ \E n \in AllNodes(idx) : Node(idx, n).NextOffset = n /\ Node(idx, n).PreviousOffset = n

\* C38: between the operations of the store every node of the search index
\* that is neither marked deleted nor expired has as its kv address the
\* address of a record of the data file that has the node's key and is not
\* tombstoned.
C38_LiveNodesPointToLiveRecords ==
    LET idx == store.searchIndex
        p == store.bufferPool
    IN  \A n \in AllNodes(idx) :
          (~Node(idx, n).IsDeleted /\ ~IsExpired(Node(idx, n).Expiry, now))
             => /\ Node(idx, n).KvAddress \in RecordAddrs(p.File, p.keyValuesStartPoint)
                /\ RecordKey(p.File, Node(idx, n).KvAddress) = Node(idx, n).Key
                /\ p.File[IsDeletedOffset(p.File, Node(idx, n).KvAddress) + 1] # 1

\* the addresses of the nodes of a list in the order of the walk, from the
\* node at a back to the root; at most fuel nodes
RECURSIVE ListFrom(_, _, _, _)
ListFrom(idx, root, a, fuel) ==
    LET nextOffset == Node(idx, a).NextOffset
    IN  IF fuel = 0 THEN <<>>
        ELSE IF nextOffset = root \/ nextOffset = 0 THEN <<a>>
        ELSE <<a>> \o ListFrom(idx, root, nextOffset, fuel - 1)

\* the roots of the list of prefix among the nodes of the index idx
RootsOf(idx, nodes, prefix) ==
    {r \in nodes : Node(idx, r).IndexKey = prefix /\ Node(idx, r).IsRoot}

\* the list of prefix among the nodes of idx, empty when the prefix has no list
ListAmong(idx, nodes, prefix) ==
    LET roots == RootsOf(idx, nodes, prefix)
        root == CHOOSE r \in roots : TRUE
    IN  IF roots = {} THEN <<>> ELSE ListFrom(idx, root, root, WalkFuel(idx.File))

ListOf(idx, prefix) == ListAmong(idx, AllNodes(idx), prefix)

\* the positions of key k in the list l of idx
PositionsOf(idx, l, k) == {i \in 1..Len(l) : Node(idx, l[i]).Key = k}

\* list l2 of index i2 is list l1 of index i1 with the node of key k updated
\* in place to kvAddr and expiry
UpdatedInPlace(i1, l1, i2, l2, k, kvAddr, expiry) ==
    /\ l2 = l1
    /\ \A j \in 1..Len(l1) :
          LET n1 == Node(i1, l1[j])
          IN  Node(i2, l2[j]) = IF n1.Key = k
                                THEN [n1 EXCEPT !.KvAddress = kvAddr, !.Expiry = expiry]
                                ELSE n1

\* list l2 of index i2 is list l1 of index i1 with one node for key k added
\* at the tail
AppendedAtTail(i1, l1, i2, l2, k, kvAddr, expiry) ==
    /\ Len(l2) = Len(l1) + 1
    /\ SubSeq(l2, 1, Len(l1)) = l1
    /\ l2[Len(l2)] \notin AllNodes(i1)
    /\ LET tail == Node(i2, l2[Len(l2)])
       IN  /\ tail.Key = k
           /\ tail.KvAddress = kvAddr
           /\ tail.Expiry = expiry
           /\ tail.NextOffset = l2[1]
    /\ \A j \in 1..Len(l1) :
          LET n1 == Node(i1, l1[j])
              n2 == Node(i2, l2[j])
          IN  n2.Key = n1.Key /\ n2.KvAddress = n1.KvAddress /\ n2.Expiry = n1.Expiry

\* the keys, kv addresses and expiries Add is tried with: a key with two
\* prefixes in lists that other keys share, and a key no Set has added
UpsertKeys == {KeyAG, KeyB}
AddAddrs == {200}
AddExpiries == {5}

\* the lists of the prefixes of key k in the index after, compared with those
\* of the index before an Add of k with kvAddr and expiry
ListsAfterAdd(before, after, k, kvAddr, expiry) ==
    \A prefix \in IndexedPrefixes(k) :
        LET l1 == ListAmong(before, AllNodes(before), prefix)
            l2 == ListAmong(after, AllNodes(after), prefix)
        IN  IF PositionsOf(before, l1, k) # {}
            THEN UpdatedInPlace(before, l1, after, l2, k, kvAddr, expiry)
            ELSE AppendedAtTail(before, l1, after, l2, k, kvAddr, expiry)

\* no list of the index has two nodes with the same key
KeysAreUnique(idx, nodes) ==
    Cardinality({<<Node(idx, n).IndexKey, Node(idx, n).Key>> : n \in nodes})
        = Cardinality(nodes)

\* C39: no list of the search index has two nodes with the same key; an Add
\* of a key that a list has updates the kv address and the expiry of its node
\* in place and leaves the nodes of the list and their order as they are, and
\* an Add of a key that a list does not have adds exactly one node, at the
\* tail.
C39_OneNodePerKey ==
    LET idx == store.searchIndex
    IN  /\ KeysAreUnique(idx, AllNodes(idx))
        /\ \A k \in UpsertKeys : \A kvAddr \in AddAddrs : \A expiry \in AddExpiries :
             LET r == IndexAdd(idx, k, kvAddr, expiry)
             IN  r.err = NoErr => ListsAfterAdd(idx, r.idx, k, kvAddr, expiry)

\* C39: a Set of a key that was set before has updated its node in a list of
\* two nodes
C39_Witness ==
    /\ last.op = "Set" /\ last.err = NoErr /\ ref[last.k].n >= 2
    /\ Len(ListOf(store.searchIndex, KeyA)) = 2

\* the kv addresses a Search of term returns from the index idx at time t
Found(idx, term, t) ==
    {IndexSearch(idx, term, 0, 0, t).val[i] :
        i \in 1..Len(IndexSearch(idx, term, 0, 0, t).val)}

\* the nodes of key k in the index idx
NodesOfKey(idx, k) == {n \in AllNodes(idx) : Node(idx, n).Key = k}

\* the index after is what a Remove of key k makes of the index before: the
\* nodes of k are marked deleted, no Search returns their kv address, and the
\* kv addresses of the nodes of the other keys are returned as before
Removed(before, after, k, t) ==
    /\ \A n \in NodesOfKey(before, k) : Node(after, n).IsDeleted
    /\ \A term \in ListTerms :
          /\ \A n \in NodesOfKey(before, k) :
                Node(before, n).KvAddress \notin Found(after, term, t)
          /\ \A n \in AllNodes(before) \ NodesOfKey(before, k) :
                Node(before, n).KvAddress \in Found(after, term, t)
                   <=> Node(before, n).KvAddress \in Found(before, term, t)

\* C40: after Remove(key) of the search index returns, the node of the key in
\* the list of each of its prefixes is marked deleted in the index file and no
\* Search returns the kv address of that node, while the nodes of the other
\* keys are returned as before.
C40_RemoveMarksDeleted ==
    \A k \in ListKeys :
        IndexRemove(store.searchIndex, k).err = NoErr
           => Removed(store.searchIndex, IndexRemove(store.searchIndex, k).idx, k, now)

====
